---- MODULE Spec2Model ----
(***************************************************************************)
(* Change-detection engine of noti-bot: the per-source state machine       *)
(* (bot/monitoring.py), the notification sender's state updates            *)
(* (bot/notifications.py), persistence (bot/storage.py), the new-entry     *)
(* selector, the parsing-strategy cache, the parser and the fetcher        *)
(* (bot/utils.py), the countdown tasks (bot/notifications.py) and the      *)
(* monitor loop over several sources with the handlers that reach it       *)
(* (bot/monitoring.py, bot/handlers.py).                                   *)
(*                                                                         *)
(* Python values are modelled as tagged records so that Python's           *)
(* equality (an int never equals a str), truthiness (None, 0, "" and []    *)
(* are all false) and conversions (int("+7"), s[0], s[1:]) are computed    *)
(* the way the interpreter computes them.  A str is a sequence of          *)
(* one-character strings.                                                  *)
(***************************************************************************)
EXTENDS Integers, Sequences, FiniteSets, TLC

VARIABLES
    sel_numbers,   \* get_selected_numbers_for_buttons: argument `numbers`
    sel_anchor,    \* get_selected_numbers_for_buttons: argument `previous_last_number`
    sel_result,    \* what the call returned (NotCalled before the call)
    sel_twice,     \* what the call returned when applied to its own result
    domain_strategies,  \* ParsingStrategyCache._domain_strategies
    selector_cache,     \* ParsingStrategyCache._selector_cache
    failure_count,      \* ParsingStrategyCache._failure_count
    cache_call,         \* the last call made on the cache, with what it returned
    fail_streak,        \* history: mark_failure calls per domain since its entry was cached
    config,        \* load_website_configs(): the configured type of each site
    websites,      \* storage["websites"]: the WebsiteMonitor of each site
    file,          \* the JSON object in website_data.json
    mon,           \* monitor_websites: where the loop stands
    call,          \* the last call made on a source: its data, what it returned
    last_sent,     \* the last notification handed to bot.send_photo
    in_flight,     \* the sources whose turn in the monitor loop has begun and not ended
    parse_call,    \* the last parse_website_content call: what it tried and returned
    fetch,         \* the fetch_url_content call in progress
    active_countdown_tasks,  \* storage["active_countdown_tasks"]: key -> task
    tasks,         \* the countdown tasks created, in the order of creation
    repeat_interval,     \* storage["repeat_interval"]
    repeat_enabled,      \* ENABLE_REPEAT_NOTIFICATION of bot/notifications.py
    latest_notification, \* storage["latest_notification"]
    watch,         \* the last command given while a countdown ran, and that countdown
    country_call   \* the last CountryDetector.detect_country call: argument and result

selVars == <<sel_numbers, sel_anchor, sel_result, sel_twice>>

cacheVars == <<domain_strategies, selector_cache, failure_count, cache_call, fail_streak>>

monVars == <<config, websites, file, mon, call, last_sent, in_flight>>

taskVars == <<active_countdown_tasks, tasks, repeat_interval, repeat_enabled,
              latest_notification, watch>>

auxVars == <<parse_call, fetch, taskVars>>

vars == <<sel_numbers, sel_anchor, sel_result, sel_twice,
          domain_strategies, selector_cache, failure_count, cache_call, fail_streak,
          config, websites, file, mon, call, last_sent, in_flight,
          parse_call, fetch, active_countdown_tasks, tasks, repeat_interval,
          repeat_enabled, latest_notification, watch, country_call>>

(***************************************************************************)
(* Bounds of the model.                                                    *)
(***************************************************************************)
MaxSelLen == 3      \* longest list handed to the selector in SpecSel
MaxFail == 4        \* mark_failure is not called on a domain whose counter reached this
MaxList == 2        \* longest list a poll returns in Spec
MaxTasks == 2       \* countdown tasks created in SpecTasks

(***************************************************************************)
(* Python values.                                                          *)
(***************************************************************************)
None == [t |-> "none", n |-> 0, s |-> <<>>, l |-> <<>>]

PyInt(i) == [t |-> "int", n |-> i, s |-> <<>>, l |-> <<>>]

PyStr(cs) == [t |-> "str", n |-> 0, s |-> cs, l |-> <<>>]

PyList(xs) == [t |-> "list", n |-> 0, s |-> <<>>, l |-> xs]

\* bool(v): None, 0, "" and [] are false, everything else is true.
Truthy(v) ==
    CASE v.t = "none" -> FALSE
      [] v.t = "int"  -> v.n # 0
      [] v.t = "str"  -> v.s # <<>>
      [] v.t = "list" -> v.l # <<>>

Digits == {"0", "1", "2", "3", "4", "5", "6", "7", "8", "9"}

DigitVal(c) ==
    CASE c = "0" -> 0 [] c = "1" -> 1 [] c = "2" -> 2 [] c = "3" -> 3
      [] c = "4" -> 4 [] c = "5" -> 5 [] c = "6" -> 6 [] c = "7" -> 7
      [] c = "8" -> 8 [] c = "9" -> 9

RECURSIVE DigitsVal(_)
DigitsVal(cs) ==
    IF cs = <<>> THEN 0
    ELSE DigitsVal(SubSeq(cs, 1, Len(cs) - 1)) * 10 + DigitVal(cs[Len(cs)])

AllDigits(cs) == cs # <<>> /\ \A i \in 1..Len(cs) : cs[i] \in Digits

\* isinstance(v, str) and v.startswith("+")
StartsWithPlus(v) == v.t = "str" /\ v.s # <<>> /\ v.s[1] = "+"

\* v[1:] when v is a str that starts with "+", v otherwise
StripPlus(v) == IF StartsWithPlus(v) THEN PyStr(Tail(v.s)) ELSE v

\* int(v) returns (no ValueError, no TypeError): an int, or a str that is an
\* optional sign followed by digits (the alphabet of the model has no blanks,
\* underscores or minus signs).
IntOk(v) ==
    CASE v.t = "int" -> TRUE
      [] v.t = "str" -> IF StartsWithPlus(v) THEN AllDigits(Tail(v.s)) ELSE AllDigits(v.s)
      [] OTHER -> FALSE

\* int(v), where IntOk(v)
IntOf(v) ==
    IF v.t = "int" THEN v
    ELSE PyInt(DigitsVal(IF StartsWithPlus(v) THEN Tail(v.s) ELSE v.s))

\* v[0] of a non-empty list or str
Item0(v) == IF v.t = "list" THEN v.l[1] ELSE PyStr(<<v.s[1]>>)

(***************************************************************************)
(* NewEntrySelector: get_selected_numbers_for_buttons (bot/utils.py).      *)
(***************************************************************************)
\* The 1-based places where `x` occurs in `numbers` under Python's ==
\* (list.index), or where the str `x` starts in the str `numbers` (str.index).
Occurrences(numbers, x) ==
    IF numbers.t = "list"
    THEN {i \in 1..Len(numbers.l) : numbers.l[i] = x}
    ELSE {i \in 1..(Len(numbers.s) - Len(x.s) + 1) :
              SubSeq(numbers.s, i, i + Len(x.s) - 1) = x.s}

MinOf(S) == CHOOSE i \in S : \A j \in S : i <= j

\* numbers[:k] for a 0-based k
Prefix(numbers, k) ==
    IF numbers.t = "list"
    THEN PyList(SubSeq(numbers.l, 1, k))
    ELSE PyStr(SubSeq(numbers.s, 1, k))

\* Mutant: an anchor that is not in the list selects nothing.
select_absent_selects_nothing(numbers, previous_last_number) ==
    IF ~Truthy(numbers) THEN [raised |-> FALSE, v |-> PyList(<<>>)]
    ELSE IF ~Truthy(previous_last_number) THEN [raised |-> FALSE, v |-> numbers]
    ELSE IF numbers.t = "str" /\ previous_last_number.t # "str"
         THEN [raised |-> TRUE, v |-> None]
    ELSE IF Occurrences(numbers, previous_last_number) = {}
         THEN [raised |-> FALSE, v |-> PyList(<<>>)]
    ELSE [raised |-> FALSE,
          v |-> Prefix(numbers, MinOf(Occurrences(numbers, previous_last_number)) - 1)]

\* Mutant: no anchor selects only the head of the list.
select_unset_selects_head(numbers, previous_last_number) ==
    IF ~Truthy(numbers) THEN [raised |-> FALSE, v |-> PyList(<<>>)]
    ELSE IF ~Truthy(previous_last_number) THEN [raised |-> FALSE, v |-> Prefix(numbers, 1)]
    ELSE IF numbers.t = "str" /\ previous_last_number.t # "str"
         THEN [raised |-> TRUE, v |-> None]
    ELSE IF Occurrences(numbers, previous_last_number) = {}
         THEN [raised |-> FALSE, v |-> numbers]
    ELSE [raised |-> FALSE,
          v |-> Prefix(numbers, MinOf(Occurrences(numbers, previous_last_number)) - 1)]

\* Mutant: the entries behind the anchor's first place are selected.
select_behind_anchor(numbers, previous_last_number) ==
    IF ~Truthy(numbers) THEN [raised |-> FALSE, v |-> PyList(<<>>)]
    ELSE IF ~Truthy(previous_last_number) THEN [raised |-> FALSE, v |-> numbers]
    ELSE IF Occurrences(numbers, previous_last_number) = {}
         THEN [raised |-> FALSE, v |-> numbers]
    ELSE [raised |-> FALSE,
          v |-> PyList(SubSeq(numbers.l, MinOf(Occurrences(numbers, previous_last_number)) + 1,
                              Len(numbers.l)))]

\* The call's outcome: raised (a TypeError of str.index with a non-str
\* argument, which the function does not catch) or the value returned.
get_selected_numbers_for_buttons(numbers, previous_last_number) ==
    IF ~Truthy(numbers) THEN [raised |-> FALSE, v |-> PyList(<<>>)]
    ELSE IF ~Truthy(previous_last_number) THEN [raised |-> FALSE, v |-> numbers]
    ELSE IF numbers.t = "str" /\ previous_last_number.t # "str"
         THEN [raised |-> TRUE, v |-> None]
    ELSE IF Occurrences(numbers, previous_last_number) = {}
         THEN [raised |-> FALSE, v |-> numbers]
    ELSE [raised |-> FALSE,
          v |-> Prefix(numbers, MinOf(Occurrences(numbers, previous_last_number)) - 1)]

(***************************************************************************)
(* StrategyCache: ParsingStrategyCache (bot/utils.py).                     *)
(* A URL is a sequence of tokens ("https:", "//", "www.", host, "/", ...); *)
(* a dict is a function on the domains, with NoStrategy / NoSelector for a *)
(* missing key (_failure_count is only ever read with .get(domain, 0)).    *)
(***************************************************************************)
NoStrategy == "no_strategy"

NoSelector == "no_selector"

Urls ==
    {<<"https:", "//", "www.", "a.com", "/", "list">>,
     <<"http:", "//", "a.com">>,
     <<"https:", "//", "b.org", "/">>}

RECURSIVE AfterLastSlashes(_)
\* url.split("//")[-1]
AfterLastSlashes(u) ==
    IF \E i \in 1..Len(u) : u[i] = "//"
    THEN AfterLastSlashes(SubSeq(u, 1 + MinOf({i \in 1..Len(u) : u[i] = "//"}), Len(u)))
    ELSE u

\* x.split("/")[0]
BeforeFirstSlash(u) ==
    IF \E i \in 1..Len(u) : u[i] = "/"
    THEN SubSeq(u, 1, MinOf({i \in 1..Len(u) : u[i] = "/"}) - 1)
    ELSE u

RECURSIVE WithoutWww(_)
\* x.replace("www.", "")
WithoutWww(u) ==
    IF u = <<>> THEN <<>>
    ELSE IF Head(u) = "www." THEN WithoutWww(Tail(u))
    ELSE <<Head(u)>> \o WithoutWww(Tail(u))

get_domain(url) == WithoutWww(BeforeFirstSlash(AfterLastSlashes(url)))

Domains == {get_domain(u) : u \in Urls}

\* get_domain of each URL of the model
domain_of == [url \in Urls |-> get_domain(url)]

\* the selector_patterns of the HTML strategy, in the order they are tried
selector_patterns ==
    <<".latest-added__title a", ".numbutton", ".styles_number__jQoac", ".card-title">>

\* The (strategy_type, selector) pairs cache_strategy is called with; of the
\* HTML selectors the model lets the first and the last win.
CachedPairs ==
    {<<"html", selector_patterns[i]>> : i \in {1, Len(selector_patterns)}}
        \cup {<<"json", NoSelector>>, <<"api_keys", NoSelector>>}

\* Mutant: the entry survives one more failure.
TooManyFailures_above_four(count) == count > 4

\* Mutant: the entry is dropped once the counter reaches 3.
TooManyFailures_from_three(count) == count >= 3

\* get_strategy's test "too many failures"
TooManyFailures(count) == count > 3

\* the three dicts of the cache, as one value
CacheNow ==
    [strategies |-> domain_strategies, selectors |-> selector_cache, failures |-> failure_count]

\* get_strategy(url) on the cache c: the cache after the call and the value returned
get_strategy_on(c, url) ==
    LET domain == domain_of[url] IN
    IF TooManyFailures(c.failures[domain])
    THEN [strategies |-> [c.strategies EXCEPT ![domain] = NoStrategy],
          selectors  |-> [c.selectors EXCEPT ![domain] = NoSelector],
          failures   |-> [c.failures EXCEPT ![domain] = 0],
          ret        |-> NoStrategy]
    ELSE [strategies |-> c.strategies,
          selectors  |-> c.selectors,
          failures   |-> c.failures,
          ret        |-> c.strategies[domain]]

\* a cache_strategy that keeps the entry a domain already has
cache_strategy_on_keeping(c, url, strategy_type, selector) ==
    LET domain == domain_of[url] IN
    IF c.strategies[domain] # NoStrategy
    THEN [strategies |-> c.strategies,
          selectors  |-> c.selectors,
          failures   |-> [c.failures EXCEPT ![domain] = 0]]
    ELSE [strategies |-> [c.strategies EXCEPT ![domain] = strategy_type],
          selectors  |-> IF selector # NoSelector
                         THEN [c.selectors EXCEPT ![domain] = selector]
                         ELSE c.selectors,
          failures   |-> [c.failures EXCEPT ![domain] = 0]]

\* a cache_strategy that stores the strategy and no selector
cache_strategy_on_without_selector(c, url, strategy_type, selector) ==
    LET domain == domain_of[url] IN
    [strategies |-> [c.strategies EXCEPT ![domain] = strategy_type],
     selectors  |-> c.selectors,
     failures   |-> [c.failures EXCEPT ![domain] = 0]]

\* cache_strategy(url, strategy_type, selector) on the cache c
cache_strategy_on(c, url, strategy_type, selector) ==
    LET domain == domain_of[url] IN
    [strategies |-> [c.strategies EXCEPT ![domain] = strategy_type],
     selectors  |-> IF selector # NoSelector
                    THEN [c.selectors EXCEPT ![domain] = selector]
                    ELSE c.selectors,
     failures   |-> [c.failures EXCEPT ![domain] = 0]]

\* a mark_failure that discards the entry at once
mark_failure_on_discarding(c, url) ==
    LET domain == domain_of[url] IN
    [strategies |-> [c.strategies EXCEPT ![domain] = NoStrategy],
     selectors |-> [c.selectors EXCEPT ![domain] = NoSelector],
     failures |-> [c.failures EXCEPT ![domain] = c.failures[domain] + 1]]

\* mark_failure(url) on the cache c
mark_failure_on(c, url) ==
    [strategies |-> c.strategies,
     selectors  |-> c.selectors,
     failures   |-> [c.failures EXCEPT ![domain_of[url]] = c.failures[domain_of[url]] + 1]]

\* get_strategy(url): the cache after the call and the value returned
get_strategy(url) == get_strategy_on(CacheNow, url)

\* cache_strategy(url, strategy_type, selector)
cache_strategy(url, strategy_type, selector) ==
    cache_strategy_on(CacheNow, url, strategy_type, selector)

\* mark_failure(url)
mark_failure(url) == mark_failure_on(CacheNow, url).failures

\* cache_call: the call, its domain, what it returned, and (history) the
\* strategy and selector cached for the domain, its failure count and its
\* fail_streak when the call was made
NoCall ==
    [op |-> "none", domain |-> <<>>, ret |-> NoStrategy, had |-> NoStrategy,
     had_selector |-> NoSelector, count |-> 0, streak |-> 0]

CacheCall(op, url, ret) ==
    [op |-> op, domain |-> domain_of[url], ret |-> ret,
     had |-> domain_strategies[domain_of[url]],
     had_selector |-> selector_cache[domain_of[url]],
     count |-> failure_count[domain_of[url]],
     streak |-> fail_streak[domain_of[url]]]

GetStrategy(url) ==
    LET r == get_strategy(url) IN
    /\ domain_strategies' = r.strategies
    /\ selector_cache' = r.selectors
    /\ failure_count' = r.failures
    /\ cache_call' = CacheCall("get_strategy", url, r.ret)
    /\ fail_streak' = IF r.ret = NoStrategy
                      THEN [fail_streak EXCEPT ![domain_of[url]] = 0]
                      ELSE fail_streak
    /\ UNCHANGED <<country_call, selVars, monVars, auxVars>>

CacheStrategy(url, pair) ==
    LET r == cache_strategy(url, pair[1], pair[2]) IN
    /\ domain_strategies' = r.strategies
    /\ selector_cache' = r.selectors
    /\ failure_count' = r.failures
    /\ cache_call' = CacheCall("cache_strategy", url, NoStrategy)
    /\ fail_streak' = [fail_streak EXCEPT ![domain_of[url]] = 0]
    /\ UNCHANGED <<country_call, selVars, monVars, auxVars>>

MarkFailure(url) ==
    /\ failure_count[domain_of[url]] < MaxFail
    /\ fail_streak[domain_of[url]] < MaxFail
    /\ failure_count' = mark_failure(url)
    /\ cache_call' = CacheCall("mark_failure", url, NoStrategy)
    /\ fail_streak' = [fail_streak EXCEPT ![domain_of[url]] = @ + 1]
    /\ UNCHANGED <<domain_strategies, selector_cache>>
    /\ UNCHANGED <<country_call, selVars, monVars, auxVars>>

CacheNext ==
    \/ \E url \in Urls : GetStrategy(url)
    \/ \E url \in Urls, pair \in CachedPairs : CacheStrategy(url, pair)
    \/ \E url \in Urls : MarkFailure(url)

(***************************************************************************)
(* Country/FlagResolver: CountryDetector (bot/utils.py).                   *)
(***************************************************************************)
\* COUNTRY_CODES: <<calling code, ISO codes>> in the order of the dict
COUNTRY_CODES ==
    << << <<"1">>, <<"us", "ca">> >>, << <<"7">>, <<"ru">> >>,
      << <<"3", "0">>, <<"gr">> >>, << <<"3", "1">>, <<"nl">> >>,
      << <<"3", "2">>, <<"be">> >>, << <<"3", "3">>, <<"fr">> >>,
      << <<"3", "4">>, <<"es">> >>, << <<"3", "9">>, <<"it">> >>,
      << <<"4", "0">>, <<"ro">> >>, << <<"4", "1">>, <<"ch">> >>,
      << <<"4", "3">>, <<"at">> >>, << <<"4", "4">>, <<"gb">> >>,
      << <<"4", "5">>, <<"dk">> >>, << <<"4", "6">>, <<"se">> >>,
      << <<"4", "8">>, <<"pl">> >>, << <<"4", "9">>, <<"de">> >>,
      << <<"5", "2">>, <<"mx">> >>, << <<"5", "5">>, <<"br">> >>,
      << <<"6", "0">>, <<"my">> >>, << <<"6", "1">>, <<"au">> >>,
      << <<"6", "2">>, <<"id">> >>, << <<"6", "3">>, <<"ph">> >>,
      << <<"6", "5">>, <<"sg">> >>, << <<"6", "6">>, <<"th">> >>,
      << <<"7", "7">>, <<"kz">> >>, << <<"8", "1">>, <<"jp">> >>,
      << <<"8", "2">>, <<"kr">> >>, << <<"8", "4">>, <<"vn">> >>,
      << <<"8", "6">>, <<"cn">> >>, << <<"9", "1">>, <<"in">> >>,
      << <<"2", "1", "2">>, <<"ma">> >>, << <<"2", "2", "5">>, <<"ci">> >>,
      << <<"2", "3", "0">>, <<"mu">> >>, << <<"2", "3", "4">>, <<"ng">> >>,
      << <<"3", "5", "1">>, <<"pt">> >>, << <<"3", "5", "3">>, <<"ie">> >>,
      << <<"3", "5", "4">>, <<"is">> >>, << <<"3", "5", "8">>, <<"fi">> >>,
      << <<"3", "5", "9">>, <<"bg">> >>, << <<"3", "7", "0">>, <<"lt">> >>,
      << <<"3", "7", "1">>, <<"lv">> >>, << <<"3", "7", "2">>, <<"ee">> >>,
      << <<"3", "8", "0">>, <<"ua">> >>, << <<"3", "8", "1">>, <<"rs">> >>,
      << <<"3", "8", "5">>, <<"hr">> >>, << <<"3", "8", "6">>, <<"si">> >>,
      << <<"3", "8", "7">>, <<"ba">> >>, << <<"4", "2", "0">>, <<"cz">> >>,
      << <<"4", "2", "1">>, <<"sk">> >>, << <<"6", "7", "0">>, <<"tl">> >>,
      << <<"8", "5", "2">>, <<"hk">> >>, << <<"8", "8", "6">>, <<"tw">> >>,
      << <<"9", "7", "2">>, <<"il">> >>, << <<"9", "9", "5">>, <<"ge">> >>,
      << <<"1", "7", "8", "7">>, <<"pr">> >> >>

\* sorted(COUNTRY_CODES.keys(), key=len, reverse=True): a stable sort, so the
\* codes of one length keep the order of the dict
CodesOfLen(k) == SelectSeq(COUNTRY_CODES, LAMBDA e : Len(e[1]) = k)

\* the codes in dict order, without the sort by length
sorted_codes_unsorted == COUNTRY_CODES

sorted_codes == CodesOfLen(4) \o CodesOfLen(3) \o CodesOfLen(2) \o CodesOfLen(1)

NoFlag == "no_flag"

\* number_str.startswith(code)
StartsWith(cs, code) == Len(code) <= Len(cs) /\ SubSeq(cs, 1, Len(code)) = code

\* detect_country(number_str)[2]: the flag URL of the first code of
\* sorted_codes that is a prefix (the URL is written as its ISO code)
detect_country(number_str) ==
    LET hits == {i \in 1..Len(sorted_codes) : StartsWith(number_str, sorted_codes[i][1])} IN
    IF hits = {} THEN NoFlag ELSE sorted_codes[MinOf(hits)][2][1]

\* what detect_country returns when no code is a prefix: (None, None, None)
NoIso == "None"

NoCountry == [code |-> None, iso_code |-> NoIso, flag_url |-> NoFlag]

\* CountryDetector.detect_country(number_str): the loop over _sorted_codes
\* returns at the first code number_str starts with; a list of ISO codes
\* gives its first element (the flag URL is written as its ISO code)
detect_country_tuple(number_str) ==
    LET hits == {i \in 1..Len(sorted_codes) : StartsWith(number_str, sorted_codes[i][1])} IN
    IF hits = {} THEN NoCountry
    ELSE LET entry == sorted_codes[MinOf(hits)] IN
         [code |-> PyStr(entry[1]), iso_code |-> entry[2][1], flag_url |-> entry[2][1]]

NoCountryCall == [number_str |-> <<>>, called |-> FALSE, result |-> NoCountry]

\* CLEAN_NUMBER.sub('', s): blanks, "-" and "+" removed
clean_number(cs) == SelectSeq(cs, LAMBDA c : c \notin {" ", "-", "+"})

(***************************************************************************)
(* What parse_website_content returns to the monitor: (None, None), or     *)
(* the texts found (a bare str when there is one, a list when there are    *)
(* more) with the flag of the first text.                                  *)
(***************************************************************************)
PageTexts == {<<"5">>, <<"+", "7">>, <<"0">>, <<"x">>}

Distinct(xs) == \A i, j \in 1..Len(xs) : i # j => xs[i] # xs[j]

\* the element lists a page can yield: at most MaxList texts, no text twice
PageLists ==
    {xs \in UNION {[1..m -> PageTexts] : m \in 1..MaxList} : Distinct(xs)}

\* (numbers[0] if len(numbers) == 1 else numbers), flag_url
ParseReturn(numbers) ==
    [data |-> IF Len(numbers) = 1 THEN PyStr(numbers[1])
              ELSE PyList([i \in 1..Len(numbers) |-> PyStr(numbers[i])]),
     flag |-> detect_country(clean_number(numbers[1]))]

NoData == [data |-> None, flag |-> NoFlag]

ParseResults == {ParseReturn(xs) : xs \in PageLists} \cup {ParseReturn(<<<<>>>>), NoData}

(***************************************************************************)
(* SourceMonitor: WebsiteMonitor (bot/monitoring.py).                      *)
(***************************************************************************)
SiteOrder == <<"site_1">>

Sites == {SiteOrder[i] : i \in 1..Len(SiteOrder)}

ConfigTypes == {"none", "single", "multiple"}

\* WebsiteMonitor.__init__
NewMonitor(type) ==
    [type |-> type,
     enabled |-> TRUE,
     is_initial_run |-> TRUE,
     latest_numbers |-> PyList(<<>>),
     last_number |-> None,
     flag_url |-> NoFlag,
     previous_last_number |-> None]

\* a call that returns without having called save_website_data
Out_unsaved(w, ret, saved, raised) == [w |-> w, ret |-> ret, saved |-> FALSE, raised |-> raised]

\* What a call on a source did: the monitor after it, what it returned,
\* whether it called save_website_data, whether it raised.
Out(w, ret, saved, raised) == [w |-> w, ret |-> ret, saved |-> saved, raised |-> raised]

\* a single source that announces its first value only
process_single_first_only(w, new_data, flag_url) ==
    LET stripped == StripPlus(new_data)
        new_number == IF IntOk(stripped) THEN IntOf(stripped) ELSE stripped
    IN  IF w.last_number = None
        THEN Out([w EXCEPT !.last_number = new_number,
                           !.previous_last_number = new_number,
                           !.flag_url = flag_url,
                           !.is_initial_run = TRUE], TRUE, TRUE, FALSE)
        ELSE Out(w, FALSE, FALSE, FALSE)

\* a single source that takes an unchanged value for a first run again
process_single_rearming(w, new_data, flag_url) ==
    LET stripped == StripPlus(new_data)
        new_number == IF IntOk(stripped) THEN IntOf(stripped) ELSE stripped
    IN  IF w.last_number = None \/ new_number = w.last_number
        THEN Out([w EXCEPT !.last_number = new_number,
                           !.previous_last_number = new_number,
                           !.flag_url = flag_url,
                           !.is_initial_run = TRUE], TRUE, TRUE, FALSE)
        ELSE Out([w EXCEPT !.previous_last_number = w.last_number,
                           !.last_number = new_number,
                           !.flag_url = flag_url,
                           !.is_initial_run = FALSE], TRUE, TRUE, FALSE)

\* process_update, type "single"
process_single(w, new_data, flag_url) ==
    LET stripped == StripPlus(new_data)
        new_number == IF IntOk(stripped) THEN IntOf(stripped) ELSE stripped
    IN  IF w.last_number = None
        THEN Out([w EXCEPT !.last_number = new_number,
                           !.previous_last_number = new_number,
                           !.flag_url = flag_url,
                           !.is_initial_run = TRUE], TRUE, TRUE, FALSE)
        ELSE IF new_number # w.last_number
        THEN Out([w EXCEPT !.previous_last_number = w.last_number,
                           !.last_number = new_number,
                           !.flag_url = flag_url,
                           !.is_initial_run = FALSE], TRUE, TRUE, FALSE)
        ELSE Out(w, FALSE, FALSE, FALSE)

\* process_update, any other type, latest_numbers empty (first run).
\* new_data.copy() raises AttributeError when new_data is a str, after
\* last_number, previous_last_number and flag_url were assigned.
process_multiple_first(w, new_data, flag_url) ==
    LET first_num == StripPlus(Item0(new_data)) IN
    IF ~IntOk(first_num)
    THEN Out([w EXCEPT !.last_number = None], FALSE, FALSE, FALSE)
    ELSE IF new_data.t # "list"
    THEN Out([w EXCEPT !.last_number = IntOf(first_num),
                       !.previous_last_number = IntOf(first_num),
                       !.flag_url = flag_url], FALSE, FALSE, TRUE)
    ELSE Out([w EXCEPT !.last_number = IntOf(first_num),
                       !.previous_last_number = IntOf(first_num),
                       !.flag_url = flag_url,
                       !.latest_numbers = new_data,
                       !.is_initial_run = TRUE], TRUE, TRUE, FALSE)

\* process_update, any other type, latest_numbers not empty (subsequent runs)
process_multiple_next(w, new_data, flag_url) ==
    LET first_num == StripPlus(Item0(new_data)) IN
    IF ~IntOk(first_num) THEN Out(w, FALSE, FALSE, FALSE)
    ELSE IF IntOf(first_num) # w.last_number
    THEN Out([w EXCEPT !.previous_last_number = w.last_number,
                       !.last_number = IntOf(first_num),
                       !.latest_numbers = new_data,
                       !.flag_url = flag_url,
                       !.is_initial_run = FALSE], TRUE, TRUE, FALSE)
    ELSE Out(w, FALSE, FALSE, FALSE)

\* a detection that runs on every poll, configured or detected type notwithstanding
detected_type_every_poll(w, new_data) ==
    IF new_data.t = "list" /\ Len(new_data.l) > 1 THEN "multiple"
    ELSE "single"

\* the type process_update works with (dynamic type detection)
detected_type(w, new_data) ==
    IF w.type # "none" THEN w.type
    ELSE IF new_data.t = "list" /\ Len(new_data.l) > 1 THEN "multiple"
    ELSE "single"

\* WebsiteMonitor.process_update(new_data, flag_url)
process_update(w, new_data, flag_url) ==
    IF ~Truthy(new_data) THEN Out(w, FALSE, FALSE, FALSE)
    ELSE LET typed == [w EXCEPT !.type = detected_type(w, new_data)] IN
         IF typed.type = "single" THEN process_single(typed, new_data, flag_url)
         ELSE IF ~Truthy(typed.latest_numbers)
         THEN process_multiple_first(typed, new_data, flag_url)
         ELSE process_multiple_next(typed, new_data, flag_url)

(***************************************************************************)
(* Persistence: website_data.json (bot/storage.py).  An entry holds the    *)
(* keys save_website_data writes: "last_number" alone, or with             *)
(* "previous_last_number" and "latest_numbers" for a multiple source.      *)
(***************************************************************************)
NoEntry ==
    [keys |-> "absent", last_number |-> None,
     previous_last_number |-> None, latest_numbers |-> PyList(<<>>)]

\* save_website_data(site_id): data[site_id] as written to the file
save_website_data(w) ==
    IF w.type = "multiple"
    THEN [keys |-> "multiple", last_number |-> w.last_number,
          previous_last_number |-> w.previous_last_number,
          latest_numbers |-> w.latest_numbers]
    ELSE [keys |-> "last_only", last_number |-> w.last_number,
          previous_last_number |-> None, latest_numbers |-> PyList(<<>>)]

\* last_number taken from latest_numbers[0] (storage.py, load_website_data)
first_as_number(numbers) ==
    IF IntOk(StripPlus(Item0(numbers))) THEN IntOf(StripPlus(Item0(numbers))) ELSE None

\* a load that restores previous_last_number and latest_numbers whatever the type
load_website_data_any_type(w, entry) ==
    IF entry.keys = "absent" THEN w
    ELSE [w EXCEPT !.last_number = entry.last_number,
                   !.previous_last_number = entry.previous_last_number,
                   !.latest_numbers = entry.latest_numbers]

\* load_website_data, for one site
load_website_data(w, entry) ==
    IF entry.keys = "absent" THEN w
    ELSE LET w1 == [w EXCEPT !.last_number = entry.last_number] IN
         IF w.type # "multiple" THEN w1
         ELSE LET w2 == [w1 EXCEPT !.previous_last_number =
                            IF entry.keys = "multiple" THEN entry.previous_last_number
                            ELSE w1.last_number]
              IN  IF Truthy(entry.latest_numbers)
                  THEN [w2 EXCEPT !.latest_numbers = entry.latest_numbers,
                                  !.last_number = IF w2.last_number = None
                                                  THEN first_as_number(entry.latest_numbers)
                                                  ELSE w2.last_number]
                  ELSE w2

(***************************************************************************)
(* send_notification (bot/notifications.py), as far as it reads and writes *)
(* the source.  SINGLE_MODE is off (its default).                          *)
(***************************************************************************)
DigitChar(d) ==
    CASE d = 0 -> "0" [] d = 1 -> "1" [] d = 2 -> "2" [] d = 3 -> "3" [] d = 4 -> "4"
      [] d = 5 -> "5" [] d = 6 -> "6" [] d = 7 -> "7" [] d = 8 -> "8" [] d = 9 -> "9"

RECURSIVE StrOfNat(_)
StrOfNat(i) == IF i < 10 THEN <<DigitChar(i)>> ELSE StrOfNat(i \div 10) \o <<DigitChar(i % 10)>>

\* f"+{v}" of an int or a str
PlusFormat(v) == PyStr(<<"+">> \o (IF v.t = "int" THEN StrOfNat(v.n) ELSE v.s))

\* int(first_num) of numbers[0] without its "+", or first_num itself when int() raises
head_number(numbers) ==
    IF IntOk(StripPlus(Item0(numbers))) THEN IntOf(StripPlus(Item0(numbers)))
    ELSE StripPlus(Item0(numbers))

\* What the call did: the monitor after it, whether it called
\* save_website_data, the buttons of the message handed to send_photo
\* (attempted) and whether send_photo returned.
Sent(w, saved, attempted, numbers, delivered) ==
    [w |-> w, saved |-> saved, attempted |-> attempted, numbers |-> numbers,
     delivered |-> delivered]

\* format_phone_number is a coroutine function (utils.py:418) and is called
\* without await (notifications.py:287): unpacking the coroutine object
\* raises TypeError, which the outer "except Exception" turns into a return.
\* The call is made when website.last_number is true.
flag_lookup_raises(w) == Truthy(w.last_number)

\* send_notification, multiple source, is_initial_run
send_initial(w, photo_ok) ==
    LET w1 == IF w.last_number = None
              THEN [w EXCEPT !.last_number = head_number(w.latest_numbers),
                             !.previous_last_number = head_number(w.latest_numbers)]
              ELSE w
    IN  Sent(w1, w.last_number = None, TRUE,
             PyList(<<PlusFormat(w1.last_number)>>), photo_ok)

\* send_notification, multiple source, subsequent runs
send_subsequent(w, photo_ok) ==
    LET selected == get_selected_numbers_for_buttons(w.latest_numbers, w.previous_last_number) IN
    IF selected.raised THEN Sent(w, FALSE, FALSE, PyList(<<>>), FALSE)
    ELSE Sent([w EXCEPT !.previous_last_number = w.last_number,
                        !.last_number = head_number(w.latest_numbers)],
              FALSE, TRUE, selected.v, photo_ok)

\* send_notification(bot, website.get_notification_data())
send_notification(w, photo_ok) ==
    IF flag_lookup_raises(w) THEN Sent(w, FALSE, FALSE, PyList(<<>>), FALSE)
    ELSE IF w.type # "multiple" THEN Sent(w, FALSE, FALSE, PyList(<<>>), FALSE)
    ELSE IF ~Truthy(w.latest_numbers) THEN Sent(w, FALSE, FALSE, PyList(<<>>), FALSE)
    ELSE IF w.is_initial_run THEN send_initial(w, photo_ok)
    ELSE send_subsequent(w, photo_ok)

(***************************************************************************)
(* Parser: parse_website_content (bot/utils.py).  What the network answers *)
(* during one call is the call's `world`: the page fetch_url_content       *)
(* returns (the selectors that match in it, or no page), whether the fetch *)
(* made for a cached selector returned that page too, what the JSON        *)
(* endpoint and the keyed API answer, and the texts extracted.             *)
(***************************************************************************)
\* an HTML attempt whose fetch returned "" tries no selector
NoPage == "no_page"

SelectorIndex(selector) ==
    CHOOSE i \in 1..Len(selector_patterns) : selector_patterns[i] = selector

\* the selectors that match in the page, by their place in selector_patterns
MatchSets == {{}, {1}, {2}, {4}, {2, 4}}

EmptyPage == [ok |-> FALSE, matching |-> {}]

Pages == {EmptyPage} \cup {[ok |-> TRUE, matching |-> S] : S \in MatchSets}

\* what the JSON endpoint or the keyed API does: raises / an HTTP error,
\* answers with nothing, answers with numbers
Answers == {"error", "empty", "numbers"}

\* the texts a strategy extracts: one element, or two
ExtractedLists == {<< <<"5">> >>, << <<"+", "7">>, <<"5">> >>}

\* Of the answers that differ only in how a strategy fails, one of each kind
\* is kept; a first fetch that fails is followed by one that finds a match.
Worlds ==
    {w \in [first_ok : BOOLEAN, page : Pages, json : Answers, api : Answers,
            numbers : ExtractedLists] :
        /\ ~w.first_ok => w.page.matching \in {{1}, {2, 4}}
        /\ <<w.json, w.api>> \in {<<"error", "empty">>, <<"error", "numbers">>,
                                  <<"numbers", "error">>, <<"numbers", "numbers">>}}

\* what is returned for each of the extracted lists
ExtractedReturns == [numbers \in ExtractedLists |-> ParseReturn(numbers)]

\* a selector loop that does not stop at a match
SelectorsTried_all(page, i) ==
    [j \in 1..(Len(selector_patterns) - i + 1) |-> <<"html", selector_patterns[i + j - 1]>>]

\* the HTML selectors tried on a page, from the i-th on, until one matches
RECURSIVE SelectorsTried(_, _)
SelectorsTried(page, i) ==
    IF i > Len(selector_patterns) THEN <<>>
    ELSE IF i \in page.matching THEN << <<"html", selector_patterns[i]>> >>
    ELSE << <<"html", selector_patterns[i]>> >> \o SelectorsTried(page, i + 1)

\* a PHASE 2 that makes no attempt with the cached strategy
cached_attempt_skipped(c, url, cached, world) ==
    [tried |-> <<>>, ok |-> FALSE, cache |-> c, selector |-> NoSelector]

\* PHASE 2: the cached strategy.  tried: the attempts <<strategy, selector>>
\* made; ok: the attempt returned; cache: the cache after it
cached_attempt(c, url, cached, world) ==
    LET domain == domain_of[url]
        cached_selector == c.selectors[domain]
        page == IF world.first_ok THEN world.page ELSE EmptyPage
    IN  IF cached = "html"
        THEN IF cached_selector = NoSelector
             THEN [tried |-> <<>>, ok |-> FALSE, cache |-> c, selector |-> NoSelector]
             ELSE IF ~page.ok
             THEN [tried |-> << <<"html", NoPage>> >>, ok |-> FALSE, cache |-> c,
                   selector |-> NoSelector]
             ELSE [tried |-> << <<"html", cached_selector>> >>,
                   ok |-> SelectorIndex(cached_selector) \in page.matching,
                   cache |-> c, selector |-> cached_selector]
        ELSE IF cached = "json"
        THEN [tried |-> << <<"json", NoSelector>> >>, ok |-> world.json = "numbers",
              cache |-> c, selector |-> NoSelector]
        ELSE IF cached = "api_keys"
        THEN [tried |-> << <<"api_keys", NoSelector>> >>, ok |-> world.api = "numbers",
              cache |-> IF world.api = "numbers"
                        THEN cache_strategy_on(c, url, "api_keys", NoSelector) ELSE c,
              selector |-> NoSelector]
        ELSE [tried |-> <<>>, ok |-> FALSE, cache |-> c, selector |-> NoSelector]

\* PHASE 3 and 4: every strategy in turn.  won: the strategy that returned
cascade(c, url, world) ==
    LET html == IF world.page.ok THEN SelectorsTried(world.page, 1)
                ELSE << <<"html", NoPage>> >>
    IN  IF world.page.ok /\ world.page.matching # {}
        THEN [tried |-> html, won |-> "html", selector |-> html[Len(html)][2],
              cache |-> cache_strategy_on(c, url, "html", html[Len(html)][2])]
        ELSE IF world.json = "numbers"
        THEN [tried |-> html \o << <<"json", NoSelector>> >>, won |-> "json",
              selector |-> NoSelector,
              cache |-> cache_strategy_on(c, url, "json", NoSelector)]
        ELSE IF world.api = "numbers"
        THEN [tried |-> html \o << <<"json", NoSelector>>, <<"api_keys", NoSelector>> >>,
              won |-> "api_keys", selector |-> NoSelector,
              cache |-> cache_strategy_on(c, url, "api_keys", NoSelector)]
        ELSE [tried |-> html \o << <<"json", NoSelector>>, <<"api_keys", NoSelector>> >>,
              won |-> NoStrategy, selector |-> NoSelector,
              cache |-> mark_failure_on(c, url)]

\* (numbers[0] if len(numbers) == 1 else numbers), flag_url: the same
\* expression for every website_type
parse_return(website_type, numbers) == ExtractedReturns[numbers]

\* the strategies among the attempts that ended in an error: a page fetch
\* that failed, an endpoint that answered with an HTTP error or with
\* malformed JSON
AnswerErrors(world, tried) ==
    {tried[i][1] : i \in {j \in 1..Len(tried) :
        \/ tried[j][2] = NoPage
        \/ tried[j][1] = "json" /\ world.json = "error"
        \/ tried[j][1] = "api_keys" /\ world.api = "error"}}

\* a JSON strategy whose error is not caught
propagates_from_json(strategy) == strategy = "json"

\* whether an error of a strategy leaves parse_website_content: the page
\* fetch catches ClientError and TimeoutError, fetch_json_numbers and both
\* try blocks of the API strategies catch Exception
propagates(strategy) == FALSE

Raised(world, tried) == \E strategy \in AnswerErrors(world, tried) : propagates(strategy)

\* parse_website_content(url, website_type) on the cache c: the cache after
\* the call, (data, flag_url) returned, the attempts made in their order,
\* how the result was got (via), the number of mark_failure calls, whether
\* the call raised
parse_website_content(c, url, website_type, world) ==
    LET look == get_strategy_on(c, url)
        c1 == [strategies |-> look.strategies, selectors |-> look.selectors,
               failures |-> look.failures]
        second == cached_attempt(c1, url, look.ret, world)
        third == cascade(second.cache, url, world)
        found == parse_return(website_type, world.numbers)
    IN  IF second.ok
        THEN [cache |-> second.cache, data |-> found.data, flag |-> found.flag,
              tried |-> second.tried, via |-> "cached", won |-> look.ret,
              selector |-> second.selector, marks |-> 0,
              raised |-> Raised(world, second.tried),
              hit |-> look.ret]
        ELSE IF third.won # NoStrategy
        THEN [cache |-> third.cache, data |-> found.data, flag |-> found.flag,
              tried |-> second.tried \o third.tried, via |-> "cascade", won |-> third.won,
              selector |-> third.selector, marks |-> 0,
              raised |-> Raised(world, second.tried \o third.tried),
              hit |-> look.ret]
        ELSE [cache |-> third.cache, data |-> None, flag |-> NoFlag,
              tried |-> second.tried \o third.tried, via |-> "none", won |-> NoStrategy,
              selector |-> NoSelector, marks |-> 1,
              raised |-> Raised(world, second.tried \o third.tried),
              hit |-> look.ret]

\* the first strategy, in the order of the cascade, that the world answers
\* with numbers on the page the cascade fetches
FirstAnswering(world) ==
    IF world.page.ok /\ world.page.matching # {}
    THEN <<"html", selector_patterns[CHOOSE i \in world.page.matching :
                                        \A j \in world.page.matching : i <= j]>>
    ELSE IF world.json = "numbers" THEN <<"json", NoSelector>>
    ELSE IF world.api = "numbers" THEN <<"api_keys", NoSelector>>
    ELSE <<NoStrategy, NoSelector>>

\* whether the world answers the attempt of a cached strategy with numbers
AnswersCached(world, strategy, selector) ==
    IF strategy = "html"
    THEN /\ selector # NoSelector
         /\ world.first_ok
         /\ SelectorIndex(selector) \in world.page.matching
    ELSE IF strategy = "json" THEN world.json = "numbers"
    ELSE IF strategy = "api_keys" THEN world.api = "numbers"
    ELSE FALSE

\* the last call of parse_website_content: its arguments, what the world
\* answered (errors, first, cached_answers, extracted), and what the call did
NoParse ==
    [url |-> <<>>, type |-> "none", hit |-> NoStrategy, via |-> "not_called",
     won |-> NoStrategy, selector |-> NoSelector, tried |-> <<>>, data |-> None,
     flag |-> NoFlag, marks |-> 0, raised |-> FALSE, errors |-> {},
     first |-> <<NoStrategy, NoSelector>>, cached_answers |-> FALSE, extracted |-> 0]

\* website.check_for_updates(): parse_website_content(self.url, self.type)
Parse(url, website_type, world) ==
    \E r \in {parse_website_content(CacheNow, url, website_type, world)} :
    /\ domain_strategies' = r.cache.strategies
    /\ selector_cache' = r.cache.selectors
    /\ failure_count' = r.cache.failures
    /\ parse_call' = [url |-> url, type |-> website_type, hit |-> r.hit, via |-> r.via,
                      won |-> r.won, selector |-> r.selector, tried |-> r.tried,
                      data |-> r.data, flag |-> r.flag, marks |-> r.marks,
                      raised |-> r.raised, errors |-> AnswerErrors(world, r.tried),
                      first |-> FirstAnswering(world),
                      cached_answers |->
                          AnswersCached(world, r.hit, selector_cache[domain_of[url]]),
                      extracted |-> Len(world.numbers)]
    /\ UNCHANGED <<cache_call, fail_streak>>
    /\ UNCHANGED <<country_call, selVars, monVars, fetch, taskVars>>

\* the URLs SpecParse parses: the two spellings of one domain
ParseUrls == {url \in Urls : domain_of[url] = <<"a.com">>}

ParseNext == \E url \in ParseUrls, website_type \in ConfigTypes, world \in Worlds :
                 Parse(url, website_type, world)

(***************************************************************************)
(* Countdown tasks (bot/notifications.py, bot/handlers.py).  A task is     *)
(* pending from asyncio.create_task until it first runs, running while its *)
(* loop goes on, cancelled once cancel() was called on it before it ended, *)
(* finished when its coroutine returned.                                   *)
(***************************************************************************)
TaskSites == {"site_1", "site_2"}

CHAT_ID == "chat_id"

TaskKeys == TaskSites \cup {CHAT_ID}

\* a key the dict does not have; the tasks are numbered from 1
NoTask == 0

\* None; set_repeat_interval stores positive numbers only
NoInterval == 0

DEFAULT_REPEAT_INTERVAL == 900

Intervals == {300, DEFAULT_REPEAT_INTERVAL}

NoMessage == "none"

\* a caption the countdown has not written yet
NotRendered == [t |-> "notrendered", n |-> 0, s |-> <<>>, l |-> <<>>]

\* storage["latest_notification"] at import.  numbers is its "numbers" (its
\* "number" for a single source); buttons are the entries on the keyboard
\* of the message message_id names
NoLatest ==
    [message_id |-> NoMessage, site_id |-> "none", numbers |-> None,
     is_initial_run |-> FALSE, buttons |-> PyList(<<>>)]

ActiveStatus == {"pending", "running"}

\* a cancel() that does nothing
cancel_nothing(ts, i) == ts

\* the coroutine is over: its place in the loop and its time_left are gone
ended(task, status) ==
    [task EXCEPT !.status = status, !.phase = "none", !.left = "some",
                 !.shown = NotRendered]

\* Task.cancel(): a task that has not ended is cancelled
cancel(ts, i) ==
    IF ts[i].status \in ActiveStatus THEN [ts EXCEPT ![i] = ended(@, "cancelled")] ELSE ts

\* asyncio.create_task(update_message_with_countdown(..., site_id)).
\* phase: the await the running task stands at; left: the time_left its last
\* turn computed; error: the loop ended in its `except Exception` branch;
\* numbers: the argument number_or_numbers; buttons: the entries of the
\* message the task edits, as sent; shown: the entries of its last edit
create_task(ts, site_id, number_or_numbers, buttons) ==
    Append(ts, [site |-> site_id, status |-> "pending", interval |-> NoInterval,
                phase |-> "none", left |-> "some", error |-> FALSE,
                numbers |-> number_or_numbers, buttons |-> buttons,
                shown |-> NotRendered])

\* add_countdown_to_latest_notification(bot, interval_seconds, site_id, flag_url)
\* on the dict d and the tasks ts
add_countdown_to_latest_notification(latest, d, ts, site_id) ==
    IF latest.message_id # NoMessage /\ latest.site_id = site_id
    THEN LET left == IF d[site_id] # NoTask THEN cancel(ts, d[site_id]) ELSE ts
             made == create_task(left, site_id, latest.numbers, latest.buttons)
         IN  [dict |-> [d EXCEPT ![site_id] = Len(made)], tasks |-> made]
    ELSE [dict |-> d, tasks |-> ts]

\* the record of one command and of one countdown it found active: the
\* command, the task, and the caption edits the task issued since (up to 2)
NoWatch == [event |-> "none", task |-> NoTask, since |-> 0]

\* the records a command may leave: one for each countdown in `hit`
Watched(hit, event) ==
    IF hit = {} THEN {NoWatch}
    ELSE {[event |-> event, task |-> i, since |-> 0] : i \in hit}

\* `if CHAT_ID in storage["active_countdown_tasks"]:` cancel the task and
\* remove the key (update_number, set_repeat_interval, stop_repeat_notification)
drop_chat_task(d, ts) ==
    IF d[CHAT_ID] # NoTask
    THEN [dict |-> [d EXCEPT ![CHAT_ID] = NoTask], tasks |-> cancel(ts, d[CHAT_ID])]
    ELSE [dict |-> d, tasks |-> ts]

(***************************************************************************)
(* MonitorLoop: monitor_websites (bot/monitoring.py) and the handlers that *)
(* write a source (bot/handlers.py).                                       *)
(***************************************************************************)
NoNotification == [site |-> "none", numbers |-> PyList(<<>>), is_initial_run |-> FALSE]

\* the numbers update_number is called back with
UpdateNumbers == {0, 5, 7}

\* the loop moves on to the next site; after the last one the pass is over
Advance ==
    IF mon.idx < Len(SiteOrder)
    THEN [mon EXCEPT !.idx = mon.idx + 1, !.pc = "check"]
    ELSE [stage |-> "loop", idx |-> 1, pc |-> "check"]

\* website.enabled and the source not yet initialised (monitoring.py:156-161)
needs_initial_run(w) ==
    /\ w.enabled
    /\ \/ w.type = "single" /\ w.last_number = None
       \/ w.type = "multiple" /\ ~Truthy(w.latest_numbers)

\* main(): the process starts, the monitors are built from the configuration
Restart ==
    /\ websites' = [s \in Sites |-> NewMonitor(config[s])]
    /\ mon' = [stage |-> "boot", idx |-> 1, pc |-> "check"]
    /\ call' = [op |-> "restart", site |-> "none", ret |-> FALSE, saved |-> FALSE,
                raised |-> FALSE, data |-> None, confirmed |-> FALSE]
    /\ last_sent' = NoNotification
    /\ UNCHANGED <<config, file, in_flight>>
    /\ UNCHANGED <<country_call, selVars, cacheVars, auxVars>>

\* monitor_websites up to its first pass: load_website_data, initial_run_needed
Start ==
    /\ mon.stage = "boot"
    /\ LET loaded == [s \in Sites |-> load_website_data(websites[s], file[s])] IN
       /\ websites' = [s \in Sites |->
                          IF needs_initial_run(loaded[s])
                          THEN [loaded[s] EXCEPT !.is_initial_run = TRUE]
                          ELSE loaded[s]]
       /\ mon' = [stage |-> IF \E s \in Sites : needs_initial_run(loaded[s])
                            THEN "first_pass" ELSE "loop",
                  idx |-> 1, pc |-> "check"]
    /\ call' = [op |-> "load", site |-> "none", ret |-> FALSE, saved |-> FALSE,
                raised |-> FALSE, data |-> None, confirmed |-> FALSE]
    /\ UNCHANGED <<config, file, last_sent, in_flight>>
    /\ UNCHANGED <<country_call, selVars, cacheVars, auxVars>>

\* One site of a pass, up to the notification: check_for_updates returned
\* `result`; process_update is called when new_data is true.
Check(result) ==
    LET s == SiteOrder[mon.idx]
        r == process_update(websites[s], result.data, result.flag)
    IN  /\ mon.stage \in {"first_pass", "loop"}
        /\ mon.pc = "check"
        /\ IF ~websites[s].enabled
           THEN /\ mon' = Advance
                /\ UNCHANGED <<websites, file, call>>
           ELSE IF ~Truthy(result.data)
           THEN /\ mon' = Advance
                /\ call' = [op |-> "no_data", site |-> s, ret |-> FALSE,
                            saved |-> FALSE, raised |-> FALSE,
                            data |-> None, confirmed |-> FALSE]
                /\ UNCHANGED <<websites, file>>
           ELSE /\ websites' = [websites EXCEPT ![s] = r.w]
                /\ file' = IF r.saved THEN [file EXCEPT ![s] = save_website_data(r.w)] ELSE file
                /\ call' = [op |-> "process_update", site |-> s, ret |-> r.ret,
                            saved |-> r.saved, raised |-> r.raised,
                            data |-> result.data, confirmed |-> FALSE]
                /\ mon' = IF ~r.raised /\ (r.ret \/ mon.stage = "first_pass")
                          THEN [mon EXCEPT !.pc = "notify"]
                          ELSE Advance
        /\ UNCHANGED <<config, last_sent, in_flight>>
        /\ UNCHANGED <<country_call, selVars, cacheVars, auxVars>>

\* The notification of the site just processed: send_notification runs to
\* its send_photo, which returns (photo_ok) or raises.
Notify(photo_ok) ==
    LET s == SiteOrder[mon.idx]
        r == send_notification(websites[s], photo_ok)
    IN  /\ mon.pc = "notify"
        /\ websites' = [websites EXCEPT ![s] = r.w]
        /\ file' = IF r.saved THEN [file EXCEPT ![s] = save_website_data(r.w)] ELSE file
        /\ call' = [op |-> "send_notification", site |-> s, ret |-> r.delivered,
                    saved |-> r.saved, raised |-> ~r.attempted,
                    data |-> call.data, confirmed |-> call.ret]
        /\ last_sent' = IF r.attempted
                        THEN [site |-> s, numbers |-> r.numbers,
                              is_initial_run |-> websites[s].is_initial_run]
                        ELSE last_sent
        /\ mon' = Advance
        /\ UNCHANGED <<config, in_flight>>
        /\ UNCHANGED <<country_call, selVars, cacheVars, auxVars>>

\* update_number: save_last_number(int(number), site_id), the button of a
\* single source's notification, then the countdown under CHAT_ID is dropped.
\* The call record keeps the page data of the poll announced just before
\* the callback (data, confirmed).
UpdateNumber(s, number) ==
    /\ mon.pc = "check"
    /\ websites[s].type = "single"
    /\ websites' = [websites EXCEPT ![s].last_number = PyInt(number)]
    /\ file' = [file EXCEPT ![s] = save_website_data(websites'[s])]
    /\ call' = [op |-> "update_number", site |-> s, ret |-> FALSE,
                saved |-> TRUE, raised |-> FALSE,
                data |-> IF call.site = s THEN call.data ELSE None,
                confirmed |-> /\ call.site = s
                              /\ call.op \in {"send_notification", "update_number"}
                              /\ call.confirmed]
    /\ watch' \in Watched({i \in DOMAIN tasks : tasks[i].status \in ActiveStatus /\ tasks[i].site = s},
                          "update")
    /\ \E r \in {drop_chat_task(active_countdown_tasks, tasks)} :
          /\ tasks' = r.tasks
          /\ active_countdown_tasks' = r.dict
    /\ UNCHANGED <<config, mon, last_sent, in_flight>>
    /\ UNCHANGED <<repeat_interval, repeat_enabled, latest_notification>>
    /\ UNCHANGED <<country_call, selVars, cacheVars, parse_call, fetch>>

Next ==
    \/ Restart
    \/ Start
    \/ \E result \in ParseResults : Check(result)
    \/ \E photo_ok \in BOOLEAN : Notify(photo_ok)
    \/ \E s \in Sites, number \in UpdateNumbers : UpdateNumber(s, number)

(***************************************************************************)
(* SpecSel: the selector applied to every list and anchor of the bounded   *)
(* input sets.                                                             *)
(***************************************************************************)
NotCalled == [t |-> "notcalled", n |-> 0, s |-> <<>>, l |-> <<>>]

SelAtoms ==
    {PyInt(0), PyInt(5), PyInt(7), PyStr(<<"5">>), PyStr(<<"+", "7">>), PyStr(<<>>)}

SelAnchors == SelAtoms \cup {None}

SeqsUpTo(S, k) == UNION {[1..m -> S] : m \in 0..k}

SelLists == {PyList(xs) : xs \in SeqsUpTo(SelAtoms, MaxSelLen)}

\* numbers -> get_selected_numbers_for_buttons(numbers, anchor)
SelCall ==
    /\ sel_result = NotCalled
    /\ sel_result' = get_selected_numbers_for_buttons(sel_numbers, sel_anchor).v
    /\ UNCHANGED <<sel_numbers, sel_anchor, sel_twice>>
    /\ UNCHANGED <<country_call, cacheVars, monVars, auxVars>>

\* the selector applied again, to its own result and the same anchor
SelCallAgain ==
    /\ sel_result # NotCalled
    /\ sel_twice = NotCalled
    /\ sel_twice' = get_selected_numbers_for_buttons(sel_result, sel_anchor).v
    /\ UNCHANGED <<sel_numbers, sel_anchor, sel_result>>
    /\ UNCHANGED <<country_call, cacheVars, monVars, auxVars>>

SelNext == SelCall \/ SelCallAgain

(***************************************************************************)
(* Fetcher: fetch_url_content (bot/utils.py).  One call is followed from   *)
(* await to await: each request of the retry loop, each sleep between two  *)
(* requests.                                                               *)
(***************************************************************************)
MAX_RETRIES == 3

\* the exceptions the loop catches: aiohttp.ClientError, asyncio.TimeoutError
NetworkFailures == {"ClientError", "TimeoutError"}

\* how a request ends: response.text() (with or without content), one of the
\* exceptions caught, an exception of another class
RequestOutcomes == {"text", "empty_text", "other_error"} \cup NetworkFailures

PageContent == PyStr(<<"<", "html", ">">>)

FetchUrls == Urls \cup {<<>>}

NoFetch ==
    [pc |-> "idle", url |-> <<>>, attempt |-> 0, outcomes |-> <<>>, slept |-> 0,
     ret |-> None, raised |-> FALSE]

\* a retry loop that runs once more
in_range_one_more(attempt) == attempt < MAX_RETRIES + 1

\* for attempt in range(MAX_RETRIES)
in_range(attempt) == attempt < MAX_RETRIES

\* the loop after the body ran for `attempt`: the next iteration, or the
\* return "" behind the loop
next_iteration(f, attempt) ==
    IF in_range(attempt + 1)
    THEN [f EXCEPT !.pc = "request", !.attempt = attempt + 1]
    ELSE [f EXCEPT !.pc = "done", !.ret = PyStr(<<>>)]

\* a delay after every failed attempt
delay_follows_always(attempt) == TRUE

\* `if attempt < NetworkConfig.MAX_RETRIES - 1: await asyncio.sleep(...)`
delay_follows(attempt) == attempt < MAX_RETRIES - 1

\* fetch_url_content(url) is called: `if not url: return None`
FetchCall(url) ==
    /\ fetch.pc \in {"idle", "done"}
    /\ fetch' = IF url = <<>>
                THEN [NoFetch EXCEPT !.pc = "done"]
                ELSE IF in_range(0)
                THEN [NoFetch EXCEPT !.pc = "request", !.url = url]
                ELSE [NoFetch EXCEPT !.pc = "done", !.url = url, !.ret = PyStr(<<>>)]
    /\ UNCHANGED <<country_call, selVars, cacheVars, monVars, parse_call, taskVars>>

\* session.get(url) ... return await response.text(), or the except clause
FetchRequest(outcome) ==
    /\ fetch.pc = "request"
    /\ LET f == [fetch EXCEPT !.outcomes = Append(fetch.outcomes, outcome)] IN
       fetch' =
         IF outcome = "text" THEN [f EXCEPT !.pc = "done", !.ret = PageContent]
         ELSE IF outcome = "empty_text" THEN [f EXCEPT !.pc = "done", !.ret = PyStr(<<>>)]
         ELSE IF outcome \in NetworkFailures
         THEN IF delay_follows(fetch.attempt)
              THEN [f EXCEPT !.pc = "sleep"]
              ELSE next_iteration(f, fetch.attempt)
         ELSE [f EXCEPT !.pc = "done", !.raised = TRUE]
    /\ UNCHANGED <<country_call, selVars, cacheVars, monVars, parse_call, taskVars>>

\* await asyncio.sleep(NetworkConfig.RETRY_DELAY) returns
FetchSleep ==
    /\ fetch.pc = "sleep"
    /\ fetch' = next_iteration([fetch EXCEPT !.slept = fetch.slept + 1], fetch.attempt)
    /\ UNCHANGED <<country_call, selVars, cacheVars, monVars, parse_call, taskVars>>

FetchNext ==
    \/ \E url \in FetchUrls : FetchCall(url)
    \/ \E outcome \in RequestOutcomes : FetchRequest(outcome)
    \/ FetchSleep

(***************************************************************************)
(* The countdown tasks from await to await, and the commands that reach    *)
(* them.                                                                   *)
(***************************************************************************)
\* send_notification, once the message is sent: the notification is stored
\* and, with repeat notification on, its countdown started
SendNotification(site_id) ==
    /\ Len(tasks) < MaxTasks
    /\ \E latest \in {[message_id |-> "sent", site_id |-> site_id,
                       numbers |-> websites[site_id].last_number,
                       is_initial_run |-> websites[site_id].is_initial_run,
                       buttons |-> PyList(<<websites[site_id].last_number>>)]} :
       \E r \in {IF repeat_enabled /\ repeat_interval # NoInterval
                 THEN add_countdown_to_latest_notification(
                          latest, active_countdown_tasks, tasks, site_id)
                 ELSE [dict |-> active_countdown_tasks, tasks |-> tasks]} :
          /\ latest_notification' = latest
          /\ active_countdown_tasks' = r.dict
          /\ tasks' = r.tasks
    /\ UNCHANGED <<repeat_interval, repeat_enabled, watch>>
    /\ UNCHANGED <<country_call, selVars, cacheVars, monVars, parse_call, fetch>>

count_up(w) == [w EXCEPT !.since = IF @ < 2 THEN @ + 1 ELSE @]

\* number_or_numbers when it is a list, else what the source holds now
countdown_numbers_current(number_or_numbers, w) ==
    IF Truthy(w.latest_numbers) THEN w.latest_numbers ELSE PyList(<<>>)

\* `number_or_numbers if isinstance(number_or_numbers, list) else
\* (website.latest_numbers or [])`
countdown_numbers(number_or_numbers, w) ==
    IF number_or_numbers.t = "list" THEN number_or_numbers
    ELSE IF Truthy(w.latest_numbers) THEN w.latest_numbers ELSE PyList(<<>>)

\* the entries one turn of update_message_with_countdown puts on the
\* keyboard: for a multiple source the one number of the initial run or the
\* selection among number_or_numbers, for any other source the number
countdown_render(task, w, latest) ==
    IF w.type = "multiple"
    THEN LET is_initial_run ==
                 IF ~w.is_initial_run /\ latest.message_id # NoMessage
                    /\ latest.site_id = task.site
                 THEN latest.is_initial_run ELSE w.is_initial_run
             numbers == countdown_numbers(task.numbers, w)
         IN  IF is_initial_run
             THEN [raised |-> FALSE,
                   v |-> IF w.last_number # None THEN PyList(<<PlusFormat(w.last_number)>>)
                         ELSE IF Truthy(w.latest_numbers) THEN PyList(<<Item0(w.latest_numbers)>>)
                         ELSE PyList(<<>>)]
             ELSE IF Truthy(numbers)
             THEN get_selected_numbers_for_buttons(numbers, w.previous_last_number)
             ELSE [raised |-> FALSE, v |-> PyList(<<>>)]
    ELSE [raised |-> FALSE,
          v |-> PyList(<<IF task.numbers.t = "str" THEN task.numbers ELSE w.last_number>>)]

\* the top of the loop: time_left is computed (0 once it was 0, or when
\* `zero`), the caption and the keyboard are built and
\* bot.edit_message_caption is called; an exception on the way ends the loop
issue_edit(task, zero, w, latest) ==
    LET render == countdown_render(task, w, latest) IN
    IF render.raised THEN [ended(task, "finished") EXCEPT !.error = TRUE]
    ELSE [task EXCEPT !.phase = "edit",
                      !.left = IF task.left = "zero" \/ zero THEN "zero" ELSE "some",
                      !.shown = render.v]

\* update_message_with_countdown runs for the first time: it reads the
\* interval, returns when there is none, and issues its first edit
TaskStart(i) ==
    /\ i \in DOMAIN tasks
    /\ tasks[i].status = "pending"
    /\ IF repeat_interval = NoInterval
       THEN /\ tasks' = [tasks EXCEPT ![i] = ended(@, "finished")]
            /\ watch' = watch
       ELSE /\ tasks' = [tasks EXCEPT ![i] =
                            issue_edit([@ EXCEPT !.status = "running",
                                                 !.interval = repeat_interval], FALSE,
                                       websites[@.site], latest_notification)]
            /\ watch' = IF watch.task = i THEN count_up(watch) ELSE watch
    /\ UNCHANGED <<active_countdown_tasks, repeat_interval, repeat_enabled, latest_notification>>
    /\ UNCHANGED <<country_call, selVars, cacheVars, monVars, parse_call, fetch>>

\* an edit whose exception leaves the loop running
after_edit_ignoring(task, edit_ok) ==
    [task EXCEPT !.phase = "sleep", !.error = ~edit_ok]

\* await bot.edit_message_caption(...) returns, or raises into
\* `except Exception: countdown_active = False`
after_edit(task, edit_ok) ==
    IF edit_ok
    THEN [task EXCEPT !.phase = "sleep"]
    ELSE [ended(task, "finished") EXCEPT !.error = TRUE]

TaskEdit(i, edit_ok) ==
    /\ i \in DOMAIN tasks
    /\ tasks[i].status = "running"
    /\ tasks[i].phase = "edit"
    /\ tasks' = [tasks EXCEPT ![i] = after_edit(@, edit_ok)]
    /\ UNCHANGED <<active_countdown_tasks, repeat_interval, repeat_enabled,
                   latest_notification, watch>>
    /\ UNCHANGED <<country_call, selVars, cacheVars, monVars, parse_call, fetch>>

\* a test that looks at the source's entry alone
countdown_over_entry_only(task, interval_now, d) ==
    d[task.site] = NoTask

\* the test after the sleep: repeat_interval changed, or the source has no
\* task in active_countdown_tasks
countdown_over(task, interval_now, d) ==
    interval_now # task.interval \/ d[task.site] = NoTask

\* await asyncio.sleep(1) returns: the loop ends, or goes to its next turn
TaskWake(i, zero) ==
    /\ i \in DOMAIN tasks
    /\ tasks[i].status = "running"
    /\ tasks[i].phase = "sleep"
    /\ IF countdown_over(tasks[i], repeat_interval, active_countdown_tasks)
       THEN /\ tasks' = [tasks EXCEPT ![i] = ended(@, "finished")]
            /\ watch' = watch
       ELSE /\ tasks' = [tasks EXCEPT ![i] = issue_edit(@, zero, websites[@.site],
                                                        latest_notification)]
            /\ watch' = IF watch.task = i THEN count_up(watch) ELSE watch
    /\ UNCHANGED <<active_countdown_tasks, repeat_interval, repeat_enabled, latest_notification>>
    /\ UNCHANGED <<country_call, selVars, cacheVars, monVars, parse_call, fetch>>

\* set_repeat_interval with a valid argument: the interval is stored; the
\* task under the key CHAT_ID, if there is one, is cancelled and replaced
SetRepeatInterval(new_interval, edit_ok) ==
    /\ repeat_interval' = new_interval
    /\ watch' \in IF new_interval = repeat_interval THEN {watch}
                  ELSE Watched({i \in DOMAIN tasks : tasks[i].status = "running"}, "interval")
    /\ \E r \in {drop_chat_task(active_countdown_tasks, tasks)} :
          IF /\ active_countdown_tasks[CHAT_ID] # NoTask
             /\ latest_notification.message_id # NoMessage
             /\ edit_ok
             /\ Len(tasks) < MaxTasks
          THEN \E made \in {create_task(r.tasks, latest_notification.site_id,
                                         latest_notification.numbers,
                                         latest_notification.buttons)} :
                  /\ tasks' = made
                  /\ active_countdown_tasks' = [r.dict EXCEPT ![CHAT_ID] = Len(made)]
          ELSE /\ tasks' = r.tasks
               /\ active_countdown_tasks' = r.dict
    /\ UNCHANGED <<repeat_enabled, latest_notification>>
    /\ UNCHANGED <<country_call, selVars, cacheVars, monVars, parse_call, fetch>>

\* stop_repeat_notification: the flag of bot/handlers.py is cleared (the
\* sender reads its own), the task under the key CHAT_ID is dropped
StopRepeat ==
    /\ watch' \in Watched({i \in DOMAIN tasks : tasks[i].status \in ActiveStatus}, "stop")
    /\ \E r \in {drop_chat_task(active_countdown_tasks, tasks)} :
          /\ tasks' = r.tasks
          /\ active_countdown_tasks' = r.dict
    /\ UNCHANGED <<repeat_interval, repeat_enabled, latest_notification>>
    /\ UNCHANGED <<country_call, selVars, cacheVars, monVars, parse_call, fetch>>

\* the number update_number is called back with in SpecTasks
TaskNumber == 5

TaskNext ==
    \/ \E site_id \in TaskSites : SendNotification(site_id)
    \/ \E i \in 1..MaxTasks : TaskStart(i)
    \/ \E i \in 1..MaxTasks, edit_ok \in BOOLEAN : TaskEdit(i, edit_ok)
    \/ \E i \in 1..MaxTasks, zero \in BOOLEAN : TaskWake(i, zero)
    \/ \E new_interval \in Intervals, edit_ok \in BOOLEAN :
           SetRepeatInterval(new_interval, edit_ok)
    \/ StopRepeat
    \/ \E s \in Sites : UpdateNumber(s, TaskNumber)

(***************************************************************************)
(* The monitor loop over several sources, from await to await              *)
(* (monitor_websites, bot/monitoring.py), with toggle_site_monitoring      *)
(* (bot/handlers.py) running between any two of its steps.  The            *)
(* consecutive_failures counters are only printed and are left out.        *)
(***************************************************************************)
LoopOrder == <<"site_1", "site_2">>

LoopSites == {LoopOrder[i] : i \in 1..Len(LoopOrder)}

\* what a poll of SpecLoop returns: nothing, one text (a bare str), two texts
LoopResults ==
    {NoData, ParseReturn(<<<<"5">>>>), ParseReturn(<<<<"0">>, <<"5">>>>)}

\* the `for` goes to the next source; after the last one the first pass is
\* followed by the loop, a pass of the loop by asyncio.sleep(CHECK_INTERVAL)
LoopAdvance(m) ==
    IF m.idx < Len(LoopOrder) THEN [m EXCEPT !.idx = m.idx + 1, !.pc = "top"]
    ELSE IF m.stage = "first_pass" THEN [stage |-> "loop", idx |-> 1, pc |-> "top"]
    ELSE [m EXCEPT !.pc = "interval"]

\* the turn of a source is over: in the loop asyncio.sleep(1) follows
after_site(m) ==
    IF m.stage = "loop" THEN [m EXCEPT !.pc = "pause"] ELSE LoopAdvance(m)

\* an except clause that ends monitor_websites
on_exception_abort(m) == [m EXCEPT !.pc = "aborted"]

\* `except Exception` around the turn of a source: the error is printed
on_exception(m) == after_site(m)

\* a check started and not awaited: the `for` goes on at once
begin_detached(m) == LoopAdvance(m)

\* `await website.check_for_updates()`: the loop waits for the result
begin(m) == [m EXCEPT !.pc = "fetching"]

\* monitor_websites up to its first pass: load_website_data, initial_run_needed
LoopStart ==
    /\ mon.pc = "start"
    /\ \E loaded \in {[s \in LoopSites |-> load_website_data(websites[s], file[s])]} :
          /\ websites' = [s \in LoopSites |->
                             IF needs_initial_run(loaded[s])
                             THEN [loaded[s] EXCEPT !.is_initial_run = TRUE]
                             ELSE loaded[s]]
          /\ mon' = [stage |-> IF \E s \in LoopSites : needs_initial_run(loaded[s])
                               THEN "first_pass" ELSE "loop",
                     idx |-> 1, pc |-> "top"]
    /\ call' = [op |-> "load", site |-> "none", ret |-> FALSE, saved |-> FALSE,
                raised |-> FALSE, data |-> None, confirmed |-> FALSE]
    /\ UNCHANGED <<config, file, last_sent, in_flight>>
    /\ UNCHANGED <<country_call, selVars, cacheVars, auxVars>>

\* `if not website.enabled: continue`
LoopSkip ==
    /\ mon.pc = "top"
    /\ ~websites[LoopOrder[mon.idx]].enabled
    /\ mon' = LoopAdvance(mon)
    /\ UNCHANGED <<config, websites, file, call, last_sent, in_flight>>
    /\ UNCHANGED <<country_call, selVars, cacheVars, auxVars>>

\* the source is enabled: check_for_updates is called and awaited
LoopBegin ==
    /\ mon.pc = "top"
    /\ websites[LoopOrder[mon.idx]].enabled
    /\ in_flight' = in_flight \cup {LoopOrder[mon.idx]}
    /\ mon' = begin(mon)
    /\ UNCHANGED <<config, websites, file, call, last_sent>>
    /\ UNCHANGED <<country_call, selVars, cacheVars, auxVars>>

\* check_for_updates returns `result`; process_update and send_notification
\* run up to bot.send_photo, the next await
LoopFetched(result) ==
    /\ mon.pc = "fetching"
    /\ \E s \in {LoopOrder[mon.idx]} :
       \E r \in {process_update(websites[s], result.data, result.flag)} :
       \E n \in {send_notification(r.w, TRUE)} :
          IF ~Truthy(result.data)
          THEN /\ call' = [op |-> "no_data", site |-> s, ret |-> FALSE, saved |-> FALSE,
                           raised |-> FALSE, data |-> None, confirmed |-> FALSE]
               /\ mon' = after_site(mon)
               /\ in_flight' = in_flight \ {s}
               /\ UNCHANGED <<websites, file, last_sent>>
          ELSE /\ call' = [op |-> "process_update", site |-> s, ret |-> r.ret,
                           saved |-> r.saved, raised |-> r.raised,
                           data |-> result.data, confirmed |-> FALSE]
               /\ IF r.raised
                  THEN /\ websites' = [websites EXCEPT ![s] = r.w]
                       /\ file' = file
                       /\ mon' = on_exception(mon)
                       /\ in_flight' = in_flight \ {s}
                       /\ last_sent' = last_sent
                  ELSE IF (r.ret \/ mon.stage = "first_pass") /\ n.attempted
                  THEN /\ websites' = [websites EXCEPT ![s] = n.w]
                       /\ file' = [file EXCEPT ![s] =
                                      IF n.saved THEN save_website_data(n.w)
                                      ELSE IF r.saved THEN save_website_data(r.w)
                                      ELSE @]
                       /\ mon' = [mon EXCEPT !.pc = "sending"]
                       /\ in_flight' = in_flight
                       /\ last_sent' = [site |-> s, numbers |-> n.numbers,
                                        is_initial_run |-> r.w.is_initial_run]
                  ELSE /\ websites' = [websites EXCEPT ![s] = r.w]
                       /\ file' = IF r.saved THEN [file EXCEPT ![s] = save_website_data(r.w)]
                                  ELSE file
                       /\ mon' = after_site(mon)
                       /\ in_flight' = in_flight \ {s}
                       /\ last_sent' = last_sent
    /\ UNCHANGED config
    /\ UNCHANGED <<country_call, selVars, cacheVars, auxVars>>

\* bot.send_photo returns (photo_ok) or raises; send_notification stores the
\* notification or returns.  For a multiple source the countdown is started
\* by the branch of the subsequent runs only.
LoopSent(photo_ok) ==
    /\ mon.pc = "sending"
    /\ \E s \in {LoopOrder[mon.idx]} :
          /\ call' = [op |-> "send_notification", site |-> s, ret |-> photo_ok,
                      saved |-> FALSE, raised |-> FALSE,
                      data |-> call.data, confirmed |-> call.ret]
          /\ in_flight' = in_flight \ {s}
          /\ IF photo_ok /\ Len(tasks) < MaxTasks
             THEN \E latest \in {[message_id |-> "sent", site_id |-> s,
                                    numbers |-> websites[s].latest_numbers,
                                    is_initial_run |-> last_sent.is_initial_run,
                                    buttons |-> last_sent.numbers]} :
                  \E c \in {IF /\ ~last_sent.is_initial_run
                               /\ repeat_enabled /\ repeat_interval # NoInterval
                            THEN add_countdown_to_latest_notification(
                                     latest, active_countdown_tasks, tasks, s)
                            ELSE [dict |-> active_countdown_tasks, tasks |-> tasks]} :
                     /\ latest_notification' = latest
                     /\ active_countdown_tasks' = c.dict
                     /\ tasks' = c.tasks
             ELSE UNCHANGED <<latest_notification, active_countdown_tasks, tasks>>
    /\ mon' = after_site(mon)
    /\ UNCHANGED <<config, websites, file, last_sent>>
    /\ UNCHANGED <<repeat_interval, repeat_enabled, watch>>
    /\ UNCHANGED <<country_call, selVars, cacheVars, parse_call, fetch>>

\* asyncio.sleep(1) between two sources is over
LoopPause ==
    /\ mon.pc = "pause"
    /\ mon' = LoopAdvance(mon)
    /\ UNCHANGED <<config, websites, file, call, last_sent, in_flight>>
    /\ UNCHANGED <<country_call, selVars, cacheVars, auxVars>>

\* asyncio.sleep(CHECK_INTERVAL) is over: the next pass begins
LoopInterval ==
    /\ mon.pc = "interval"
    /\ mon' = [mon EXCEPT !.idx = 1, !.pc = "top"]
    /\ UNCHANGED <<config, websites, file, call, last_sent, in_flight>>
    /\ UNCHANGED <<country_call, selVars, cacheVars, auxVars>>

\* toggle_site_monitoring: website.enabled = not website.enabled
ToggleSiteMonitoring(s) ==
    /\ websites' = [websites EXCEPT ![s].enabled = ~@]
    /\ call' = [op |-> "toggle", site |-> s, ret |-> FALSE, saved |-> FALSE,
                raised |-> FALSE, data |-> None, confirmed |-> FALSE]
    /\ UNCHANGED <<config, file, mon, last_sent, in_flight>>
    /\ UNCHANGED <<country_call, selVars, cacheVars, auxVars>>

LoopStep ==
    \/ LoopStart
    \/ LoopSkip
    \/ LoopBegin
    \/ \E result \in LoopResults : LoopFetched(result)
    \/ \E photo_ok \in BOOLEAN : LoopSent(photo_ok)
    \/ LoopPause
    \/ LoopInterval

LoopNext ==
    \/ LoopStep
    \/ \E s \in LoopSites : ToggleSiteMonitoring(s)

(***************************************************************************)
(* CountryDetector called on numeric strings                               *)
(***************************************************************************)
MaxNumberLen == 4

\* digits that begin codes of every length of the table, and one that begins none
NumberDigits == {"1", "7", "8", "3", "5", "0"}

NumberStrs == SeqsUpTo(NumberDigits, MaxNumberLen)

DetectCountry ==
    /\ ~country_call.called
    /\ country_call' = [country_call EXCEPT !.called = TRUE,
                                            !.result = detect_country_tuple(country_call.number_str)]
    /\ UNCHANGED <<selVars, cacheVars, monVars, auxVars>>

CountryNext == DetectCountry

(***************************************************************************)
(* The specifications.  Each starts every part of the module; the parts a  *)
(* specification does not exercise stay as they start.                     *)
(***************************************************************************)
NoSourceCall ==
    [op |-> "none", site |-> "none", ret |-> FALSE, saved |-> FALSE, raised |-> FALSE,
     data |-> None, confirmed |-> FALSE]

\* the program at its start: nothing saved yet, the monitors just built
Init ==
    /\ config \in [Sites -> ConfigTypes]
    /\ websites = [s \in Sites |-> NewMonitor(config[s])]
    /\ file = [s \in Sites |-> NoEntry]
    /\ mon = [stage |-> "boot", idx |-> 1, pc |-> "check"]
    /\ call = NoSourceCall
    /\ last_sent = NoNotification
    /\ in_flight = {}
    /\ domain_strategies = [d \in Domains |-> NoStrategy]
    /\ selector_cache = [d \in Domains |-> NoSelector]
    /\ failure_count = [d \in Domains |-> 0]
    /\ cache_call = NoCall
    /\ fail_streak = [d \in Domains |-> 0]
    /\ sel_numbers = PyList(<<>>)
    /\ sel_anchor = None
    /\ sel_result = NotCalled
    /\ sel_twice = NotCalled
    /\ parse_call = NoParse
    /\ fetch = NoFetch
    /\ active_countdown_tasks = [k \in TaskKeys |-> NoTask]
    /\ tasks = <<>>
    /\ repeat_interval = NoInterval
    /\ repeat_enabled = FALSE
    /\ latest_notification = NoLatest
    /\ watch = NoWatch
    /\ country_call = NoCountryCall

Spec == Init /\ [][Next]_vars

\* an empty cache
CacheInit ==
    /\ config = [s \in Sites |-> "none"]
    /\ websites = [s \in Sites |-> NewMonitor("none")]
    /\ file = [s \in Sites |-> NoEntry]
    /\ mon = [stage |-> "boot", idx |-> 1, pc |-> "check"]
    /\ call = NoSourceCall
    /\ last_sent = NoNotification
    /\ in_flight = {}
    /\ domain_strategies = [d \in Domains |-> NoStrategy]
    /\ selector_cache = [d \in Domains |-> NoSelector]
    /\ failure_count = [d \in Domains |-> 0]
    /\ cache_call = NoCall
    /\ fail_streak = [d \in Domains |-> 0]
    /\ sel_numbers = PyList(<<>>)
    /\ sel_anchor = None
    /\ sel_result = NotCalled
    /\ sel_twice = NotCalled
    /\ parse_call = NoParse
    /\ fetch = NoFetch
    /\ active_countdown_tasks = [k \in TaskKeys |-> NoTask]
    /\ tasks = <<>>
    /\ repeat_interval = NoInterval
    /\ repeat_enabled = FALSE
    /\ latest_notification = NoLatest
    /\ watch = NoWatch
    /\ country_call = NoCountryCall

SpecCache == CacheInit /\ [][CacheNext]_vars

\* every list and anchor of the bounded input sets, the selector not yet called
SelInit ==
    /\ config = [s \in Sites |-> "none"]
    /\ websites = [s \in Sites |-> NewMonitor("none")]
    /\ file = [s \in Sites |-> NoEntry]
    /\ mon = [stage |-> "boot", idx |-> 1, pc |-> "check"]
    /\ call = NoSourceCall
    /\ last_sent = NoNotification
    /\ in_flight = {}
    /\ domain_strategies = [d \in Domains |-> NoStrategy]
    /\ selector_cache = [d \in Domains |-> NoSelector]
    /\ failure_count = [d \in Domains |-> 0]
    /\ cache_call = NoCall
    /\ fail_streak = [d \in Domains |-> 0]
    /\ sel_numbers \in SelLists
    /\ sel_anchor \in SelAnchors
    /\ sel_result = NotCalled
    /\ sel_twice = NotCalled
    /\ parse_call = NoParse
    /\ fetch = NoFetch
    /\ active_countdown_tasks = [k \in TaskKeys |-> NoTask]
    /\ tasks = <<>>
    /\ repeat_interval = NoInterval
    /\ repeat_enabled = FALSE
    /\ latest_notification = NoLatest
    /\ watch = NoWatch
    /\ country_call = NoCountryCall

SpecSel == SelInit /\ [][SelNext]_vars

\* an empty cache, nothing parsed yet
ParseInit ==
    /\ config = [s \in Sites |-> "none"]
    /\ websites = [s \in Sites |-> NewMonitor("none")]
    /\ file = [s \in Sites |-> NoEntry]
    /\ mon = [stage |-> "boot", idx |-> 1, pc |-> "check"]
    /\ call = NoSourceCall
    /\ last_sent = NoNotification
    /\ in_flight = {}
    /\ domain_strategies = [d \in Domains |-> NoStrategy]
    /\ selector_cache = [d \in Domains |-> NoSelector]
    /\ failure_count = [d \in Domains |-> 0]
    /\ cache_call = NoCall
    /\ fail_streak = [d \in Domains |-> 0]
    /\ sel_numbers = PyList(<<>>)
    /\ sel_anchor = None
    /\ sel_result = NotCalled
    /\ sel_twice = NotCalled
    /\ parse_call = NoParse
    /\ fetch = NoFetch
    /\ active_countdown_tasks = [k \in TaskKeys |-> NoTask]
    /\ tasks = <<>>
    /\ repeat_interval = NoInterval
    /\ repeat_enabled = FALSE
    /\ latest_notification = NoLatest
    /\ watch = NoWatch
    /\ country_call = NoCountryCall

SpecParse == ParseInit /\ [][ParseNext]_vars

\* no fetch_url_content call made yet
FetchInit ==
    /\ config = [s \in Sites |-> "none"]
    /\ websites = [s \in Sites |-> NewMonitor("none")]
    /\ file = [s \in Sites |-> NoEntry]
    /\ mon = [stage |-> "boot", idx |-> 1, pc |-> "check"]
    /\ call = NoSourceCall
    /\ last_sent = NoNotification
    /\ in_flight = {}
    /\ domain_strategies = [d \in Domains |-> NoStrategy]
    /\ selector_cache = [d \in Domains |-> NoSelector]
    /\ failure_count = [d \in Domains |-> 0]
    /\ cache_call = NoCall
    /\ fail_streak = [d \in Domains |-> 0]
    /\ sel_numbers = PyList(<<>>)
    /\ sel_anchor = None
    /\ sel_result = NotCalled
    /\ sel_twice = NotCalled
    /\ parse_call = NoParse
    /\ fetch = NoFetch
    /\ active_countdown_tasks = [k \in TaskKeys |-> NoTask]
    /\ tasks = <<>>
    /\ repeat_interval = NoInterval
    /\ repeat_enabled = FALSE
    /\ latest_notification = NoLatest
    /\ watch = NoWatch
    /\ country_call = NoCountryCall

SpecFetch == FetchInit /\ [][FetchNext]_vars

\* detect_country about to be called on a numeric string
CountryInit ==
    /\ config = [s \in Sites |-> "none"]
    /\ websites = [s \in Sites |-> NewMonitor("none")]
    /\ file = [s \in Sites |-> NoEntry]
    /\ mon = [stage |-> "boot", idx |-> 1, pc |-> "check"]
    /\ call = NoSourceCall
    /\ last_sent = NoNotification
    /\ in_flight = {}
    /\ domain_strategies = [d \in Domains |-> NoStrategy]
    /\ selector_cache = [d \in Domains |-> NoSelector]
    /\ failure_count = [d \in Domains |-> 0]
    /\ cache_call = NoCall
    /\ fail_streak = [d \in Domains |-> 0]
    /\ sel_numbers = PyList(<<>>)
    /\ sel_anchor = None
    /\ sel_result = NotCalled
    /\ sel_twice = NotCalled
    /\ parse_call = NoParse
    /\ fetch = NoFetch
    /\ active_countdown_tasks = [k \in TaskKeys |-> NoTask]
    /\ tasks = <<>>
    /\ repeat_interval = NoInterval
    /\ repeat_enabled = FALSE
    /\ latest_notification = NoLatest
    /\ watch = NoWatch
    /\ country_call \in {[number_str |-> cs, called |-> FALSE, result |-> NoCountry] :
                          cs \in NumberStrs}

SpecCountry == CountryInit /\ [][CountryNext]_vars

\* main(): with repeat notification on, the interval starts at the default
TaskInit ==
    /\ config = [s \in TaskSites |-> "single"]
    /\ websites = [s \in TaskSites |-> NewMonitor("single")]
    /\ file = [s \in TaskSites |-> NoEntry]
    /\ mon = [stage |-> "boot", idx |-> 1, pc |-> "check"]
    /\ call = NoSourceCall
    /\ last_sent = NoNotification
    /\ in_flight = {}
    /\ domain_strategies = [d \in Domains |-> NoStrategy]
    /\ selector_cache = [d \in Domains |-> NoSelector]
    /\ failure_count = [d \in Domains |-> 0]
    /\ cache_call = NoCall
    /\ fail_streak = [d \in Domains |-> 0]
    /\ sel_numbers = PyList(<<>>)
    /\ sel_anchor = None
    /\ sel_result = NotCalled
    /\ sel_twice = NotCalled
    /\ parse_call = NoParse
    /\ fetch = NoFetch
    /\ active_countdown_tasks = [k \in TaskKeys |-> NoTask]
    /\ tasks = <<>>
    /\ repeat_enabled \in BOOLEAN
    /\ repeat_interval = IF repeat_enabled THEN DEFAULT_REPEAT_INTERVAL ELSE NoInterval
    /\ latest_notification = NoLatest
    /\ watch = NoWatch
    /\ country_call = NoCountryCall

SpecTasks == TaskInit /\ [][TaskNext]_vars

\* the event loop runs every task that can run: a task that stays ready to
\* start, whose edit stays awaited or whose sleep is over is resumed
TaskFairness ==
    \A i \in 1..MaxTasks :
        /\ WF_vars(TaskStart(i))
        /\ WF_vars(\E edit_ok \in BOOLEAN : TaskEdit(i, edit_ok))
        /\ WF_vars(\E zero \in BOOLEAN : TaskWake(i, zero))

SpecTasksFair == TaskInit /\ [][TaskNext]_vars /\ TaskFairness

\* main(): a monitor is built for every configured source, all enabled
LoopInit ==
    /\ config \in [LoopSites -> ConfigTypes]
    /\ websites = [s \in LoopSites |-> NewMonitor(config[s])]
    /\ file = [s \in LoopSites |-> NoEntry]
    /\ mon = [stage |-> "boot", idx |-> 1, pc |-> "start"]
    /\ call = NoSourceCall
    /\ last_sent = NoNotification
    /\ in_flight = {}
    /\ domain_strategies = [d \in Domains |-> NoStrategy]
    /\ selector_cache = [d \in Domains |-> NoSelector]
    /\ failure_count = [d \in Domains |-> 0]
    /\ cache_call = NoCall
    /\ fail_streak = [d \in Domains |-> 0]
    /\ sel_numbers = PyList(<<>>)
    /\ sel_anchor = None
    /\ sel_result = NotCalled
    /\ sel_twice = NotCalled
    /\ parse_call = NoParse
    /\ fetch = NoFetch
    /\ active_countdown_tasks = [k \in TaskKeys |-> NoTask]
    /\ tasks = <<>>
    /\ repeat_enabled = FALSE
    /\ repeat_interval = NoInterval
    /\ latest_notification = NoLatest
    /\ watch = NoWatch
    /\ country_call = NoCountryCall

SpecLoop == LoopInit /\ [][LoopNext]_vars

\* the event loop resumes monitor_websites whenever the call it awaits
\* (the fetch, bot.send_photo, a sleep) is over, and each of them ends
LoopFairness == WF_vars(LoopStep)

SpecLoopFair == LoopInit /\ [][LoopNext]_vars /\ LoopFairness

\* what an earlier run of the process left in the file for a source of the
\* given configured type: its first poll found two texts, the source was
\* saved, the process ended
PreviousRun(type) ==
    LET polled == process_update(NewMonitor(type), PyList(<<PyStr(<<"0">>), PyStr(<<"5">>)>>), NoFlag)
    IN  IF polled.saved THEN save_website_data(polled.w) ELSE NoEntry

\* the process starts again: the first source has an entry in the file, the
\* second has none
RestoredInit ==
    /\ config \in [LoopSites -> ConfigTypes]
    /\ websites = [s \in LoopSites |-> NewMonitor(config[s])]
    /\ file = [s \in LoopSites |-> IF s = LoopOrder[1] THEN PreviousRun(config[s]) ELSE NoEntry]
    /\ mon = [stage |-> "boot", idx |-> 1, pc |-> "start"]
    /\ call = NoSourceCall
    /\ last_sent = NoNotification
    /\ in_flight = {}
    /\ domain_strategies = [d \in Domains |-> NoStrategy]
    /\ selector_cache = [d \in Domains |-> NoSelector]
    /\ failure_count = [d \in Domains |-> 0]
    /\ cache_call = NoCall
    /\ fail_streak = [d \in Domains |-> 0]
    /\ sel_numbers = PyList(<<>>)
    /\ sel_anchor = None
    /\ sel_result = NotCalled
    /\ sel_twice = NotCalled
    /\ parse_call = NoParse
    /\ fetch = NoFetch
    /\ active_countdown_tasks = [k \in TaskKeys |-> NoTask]
    /\ tasks = <<>>
    /\ repeat_enabled = FALSE
    /\ repeat_interval = NoInterval
    /\ latest_notification = NoLatest
    /\ watch = NoWatch
    /\ country_call = NoCountryCall

SpecLoopRestored == RestoredInit /\ [][LoopNext]_vars

\* the monitor loop next to the countdowns its notifications start
RenderNext ==
    \/ LoopStep
    \/ \E s \in LoopSites : ToggleSiteMonitoring(s)
    \/ \E i \in 1..MaxTasks : TaskStart(i)
    \/ \E i \in 1..MaxTasks, edit_ok \in BOOLEAN : TaskEdit(i, edit_ok)
    \/ \E i \in 1..MaxTasks, zero \in BOOLEAN : TaskWake(i, zero)

\* two multiple sources, repeat notifications enabled with an interval set
RenderInit ==
    /\ config = [s \in LoopSites |-> "multiple"]
    /\ websites = [s \in LoopSites |-> NewMonitor(config[s])]
    /\ file = [s \in LoopSites |-> NoEntry]
    /\ mon = [stage |-> "boot", idx |-> 1, pc |-> "start"]
    /\ call = NoSourceCall
    /\ last_sent = NoNotification
    /\ in_flight = {}
    /\ domain_strategies = [d \in Domains |-> NoStrategy]
    /\ selector_cache = [d \in Domains |-> NoSelector]
    /\ failure_count = [d \in Domains |-> 0]
    /\ cache_call = NoCall
    /\ fail_streak = [d \in Domains |-> 0]
    /\ sel_numbers = PyList(<<>>)
    /\ sel_anchor = None
    /\ sel_result = NotCalled
    /\ sel_twice = NotCalled
    /\ parse_call = NoParse
    /\ fetch = NoFetch
    /\ active_countdown_tasks = [k \in TaskKeys |-> NoTask]
    /\ tasks = <<>>
    /\ repeat_enabled = TRUE
    /\ repeat_interval = DEFAULT_REPEAT_INTERVAL
    /\ latest_notification = NoLatest
    /\ watch = NoWatch
    /\ country_call = NoCountryCall

SpecRender == RenderInit /\ [][RenderNext]_vars

(***************************************************************************)
(* The properties checked.                                                 *)
(***************************************************************************)
\* the value process_update compares with last_number: the whole value of a
\* single source, the first element of any other, without a leading "+" and
\* as an int when int() accepts it
Normalised(v) == IF IntOk(StripPlus(v)) THEN IntOf(StripPlus(v)) ELSE StripPlus(v)

HeadValue(type, data) == IF type = "single" THEN Normalised(data) ELSE Normalised(Item0(data))

\* the steps of a source the state machine is made of
SourceSteps == {"process_update", "no_data", "send_notification", "update_number"}

\* C1: previous_last_number changes only in a step (a poll, a notification
\* send, a manual update) that also changes last_number.
C1_PreviousChangesOnlyWithLast ==
    [][\A s \in Sites :
          (/\ call'.op \in SourceSteps
           /\ websites'[s].previous_last_number # websites[s].previous_last_number)
          => websites'[s].last_number # websites[s].last_number]_vars

\* C2: a poll of a source that has a last_number, whose head differs from
\* it, stores previous_last_number := the old last_number, last_number :=
\* the new head, latest_numbers := the new list (multiple kind),
\* is_initial_run := false, persists and returns True.
C2_ChangedHead ==
    [][\A result \in ParseResults : \A s \in Sites :
          (/\ Check(result)
           /\ s = SiteOrder[mon.idx]
           /\ websites[s].enabled
           /\ Truthy(result.data)
           /\ websites[s].last_number # None
           /\ websites'[s].type # "single" => IntOk(StripPlus(Item0(result.data)))
           /\ HeadValue(websites'[s].type, result.data) # websites[s].last_number)
          => /\ websites'[s].previous_last_number = websites[s].last_number
             /\ websites'[s].last_number = HeadValue(websites'[s].type, result.data)
             /\ websites'[s].type = "multiple" => websites'[s].latest_numbers = result.data
             /\ websites'[s].is_initial_run = FALSE
             /\ call'.saved
             /\ file'[s].last_number = websites'[s].last_number
             /\ call'.ret]_vars

\* C3: the first poll that returns a value for an uninitialised source sets
\* last_number and previous_last_number to the head, stores latest_numbers
\* (multiple kind), sets is_initial_run, persists and returns True.
C3_FirstValue ==
    [][\A result \in ParseResults : \A s \in Sites :
          (/\ Check(result)
           /\ s = SiteOrder[mon.idx]
           /\ websites[s].enabled
           /\ Truthy(result.data)
           /\ websites[s].last_number = None
           /\ ~Truthy(websites[s].latest_numbers))
          => /\ websites'[s].last_number = HeadValue(websites'[s].type, result.data)
             /\ websites'[s].previous_last_number = websites'[s].last_number
             /\ websites'[s].type = "multiple" => websites'[s].latest_numbers = result.data
             /\ websites'[s].is_initial_run = TRUE
             /\ call'.saved
             /\ file'[s].last_number = websites'[s].last_number
             /\ call'.ret]_vars

\* C4: a poll whose head equals the source's last_number is a no-op:
\* process_update returns False, last_number, previous_last_number,
\* latest_numbers, is_initial_run and flag_url stay, nothing is persisted.
C4_SameHeadIsNoOp ==
    [][\A result \in ParseResults : \A s \in Sites :
          (/\ Check(result)
           /\ s = SiteOrder[mon.idx]
           /\ websites[s].enabled
           /\ Truthy(result.data)
           /\ HeadValue(websites'[s].type, result.data) = websites[s].last_number)
          => /\ ~call'.ret
             /\ websites'[s].last_number = websites[s].last_number
             /\ websites'[s].previous_last_number = websites[s].previous_last_number
             /\ websites'[s].latest_numbers = websites[s].latest_numbers
             /\ websites'[s].is_initial_run = websites[s].is_initial_run
             /\ websites'[s].flag_url = websites[s].flag_url
             /\ ~call'.saved
             /\ file' = file]_vars

\* C5: a cycle whose parse failed (nothing returned, or a head that cannot
\* be interpreted) leaves last_number, previous_last_number, latest_numbers
\* and is_initial_run as they were and sends no notification.
C5_FailedParseChangesNothing ==
    [][\A result \in ParseResults : \A s \in Sites :
          (/\ Check(result)
           /\ s = SiteOrder[mon.idx]
           /\ websites[s].enabled
           /\ \/ ~Truthy(result.data)
              \/ /\ websites'[s].type # "single"
                 /\ ~IntOk(StripPlus(Item0(result.data))))
          => /\ websites'[s].last_number = websites[s].last_number
             /\ websites'[s].previous_last_number = websites[s].previous_last_number
             /\ websites'[s].latest_numbers = websites[s].latest_numbers
             /\ websites'[s].is_initial_run = websites[s].is_initial_run
             /\ mon'.pc = "notify" => ~send_notification(websites'[s], TRUE).attempted]_vars

\* the 1-based places of the list whose entry, read as a number, is `number`
PlacesOfNumber(numbers, number) ==
    {i \in 1..Len(numbers.l) : Normalised(numbers.l[i]) = number}

\* C6: in the cycle of a multiple source whose poll returned a list with the
\* previously recorded head at index k > 0, the notification selects exactly
\* the first k entries, and after the cycle previous_last_number is the old
\* head and last_number the new head.  (The step is the cycle's
\* send_notification: process_update has just stored the old head in
\* previous_last_number, the new one in last_number, the list in
\* latest_numbers.)
C6_NewEntriesEndToEnd ==
    [][\A s \in Sites :
          (/\ \E photo_ok \in BOOLEAN : Notify(photo_ok)
           /\ s = SiteOrder[mon.idx]
           /\ call.op = "process_update" /\ call.ret
           /\ websites[s].type = "multiple"
           /\ ~websites[s].is_initial_run
           /\ websites[s].latest_numbers.t = "list"
           /\ PlacesOfNumber(websites[s].latest_numbers, websites[s].previous_last_number) # {}
           /\ MinOf(PlacesOfNumber(websites[s].latest_numbers,
                                   websites[s].previous_last_number)) > 1)
          => /\ call'.op = "send_notification"
             /\ last_sent'.site = s
             /\ last_sent'.numbers =
                   Prefix(websites[s].latest_numbers,
                          MinOf(PlacesOfNumber(websites[s].latest_numbers,
                                               websites[s].previous_last_number)) - 1)
             /\ websites'[s].previous_last_number = websites[s].previous_last_number
             /\ websites'[s].last_number = websites[s].last_number]_vars

\* C7: when the anchor occurs in the list, first at index k, the selector
\* returns exactly list[0:k] (the empty list for k = 0).
C7_AnchorFound ==
    sel_result # NotCalled =>
        \A k \in 1..Len(sel_numbers.l) :
            (/\ sel_numbers.l[k] = sel_anchor
             /\ \A j \in 1..(k - 1) : sel_numbers.l[j] # sel_anchor)
            => sel_result = PyList(SubSeq(sel_numbers.l, 1, k - 1))

\* C8: when the anchor is set and occurs nowhere in the list, the selector
\* returns the whole list.
C8_AnchorAbsent ==
    (/\ sel_result # NotCalled
     /\ sel_anchor # None
     /\ \A i \in 1..Len(sel_numbers.l) : sel_numbers.l[i] # sel_anchor)
    => sel_result = sel_numbers

C8_Witness ==
    /\ sel_result # NotCalled
    /\ sel_anchor = PyInt(7)
    /\ sel_numbers = PyList(<<PyInt(5), PyStr(<<"+", "7">>), PyInt(0)>>)
    /\ sel_result = sel_numbers

\* C9: when the anchor is None, the selector returns the whole list.
C9_AnchorUnset ==
    (sel_result # NotCalled /\ sel_anchor = None) => sel_result = sel_numbers

C9_Witness ==
    /\ sel_result # NotCalled
    /\ sel_anchor = None
    /\ Len(sel_numbers.l) = MaxSelLen
    /\ sel_result = sel_numbers

\* C10 as stated: get_strategy on a domain with a cached strategy and 3
\* mark_failure calls since it was cached returns no strategy and evicts.
C10_EvictedAfterThree ==
    (/\ cache_call.op = "get_strategy"
     /\ cache_call.had # NoStrategy
     /\ cache_call.streak = 3)
    => /\ cache_call.ret = NoStrategy
       /\ domain_strategies[cache_call.domain] = NoStrategy

\* C10 as amended: get_strategy on a domain with a cached strategy and 4 (or
\* more) mark_failure calls since it was cached returns no strategy and
\* evicts the strategy and the selector; after 3 it still returns the
\* cached strategy.
C10_EvictedAfterFour ==
    /\ (/\ cache_call.op = "get_strategy"
        /\ cache_call.had # NoStrategy
        /\ cache_call.streak >= 4)
       => /\ cache_call.ret = NoStrategy
          /\ domain_strategies[cache_call.domain] = NoStrategy
          /\ selector_cache[cache_call.domain] = NoSelector
    /\ (/\ cache_call.op = "get_strategy"
        /\ cache_call.had # NoStrategy
        /\ cache_call.streak <= 3)
       => /\ cache_call.ret = cache_call.had
          /\ domain_strategies[cache_call.domain] = cache_call.had

C10_Witness ==
    /\ cache_call.op = "get_strategy"
    /\ cache_call.had = "html"
    /\ cache_call.streak = 4
    /\ cache_call.ret = NoStrategy
    /\ domain_strategies[cache_call.domain] = NoStrategy

\* C11: get_strategy returns what is cached for the domain and changes
\* nothing while the domain's failure count is at most 3; when the count
\* exceeds 3 it evicts the strategy and the selector, resets the count to 0
\* and returns None.
C11_Threshold ==
    cache_call.op = "get_strategy" =>
        IF cache_call.count <= 3
        THEN /\ cache_call.ret = cache_call.had
             /\ domain_strategies[cache_call.domain] = cache_call.had
             /\ selector_cache[cache_call.domain] = cache_call.had_selector
             /\ failure_count[cache_call.domain] = cache_call.count
        ELSE /\ cache_call.ret = NoStrategy
             /\ domain_strategies[cache_call.domain] = NoStrategy
             /\ selector_cache[cache_call.domain] = NoSelector
             /\ failure_count[cache_call.domain] = 0

C11_Witness ==
    /\ cache_call.op = "get_strategy"
    /\ cache_call.count = 4
    /\ cache_call.had = "json"
    /\ cache_call.had_selector = ".card-title"
    /\ cache_call.ret = NoStrategy
    /\ selector_cache[cache_call.domain] = NoSelector
    /\ failure_count[cache_call.domain] = 0


\* C12: any successful parse for a domain, through the cached strategy or
\* through the full cascade, leaves the domain's failure counter at 0.
C12_SuccessResetsCounter ==
    parse_call.via \in {"cached", "cascade"} =>
        failure_count[domain_of[parse_call.url]] = 0

\* C13 as stated: when the lookup of a call returned a cached strategy and the
\* attempt with it fails, the call leaves the domain's cache entry as it was
\* and makes the domain's failure counter one more than it was.
C13_FailedHitKeepsAndCounts ==
    [][(parse_call'.hit # NoStrategy /\ ~parse_call'.cached_answers) =>
          LET domain == domain_of[parse_call'.url] IN
          /\ domain_strategies'[domain] = domain_strategies[domain]
          /\ selector_cache'[domain] = selector_cache[domain]
          /\ failure_count'[domain] = failure_count[domain] + 1]_vars

\* C13 amended: when the lookup of a call returned a cached strategy and the
\* attempt with it fails, the call goes on to the full cascade; if no strategy
\* of the cascade answers either, the entry is left as it was, the counter is
\* one more than it was and nothing is returned; if one answers, the entry
\* becomes the first such strategy and the counter is 0.
C13_FailedHitThenCascade ==
    [][(parse_call'.hit # NoStrategy /\ ~parse_call'.cached_answers) =>
          LET domain == domain_of[parse_call'.url] IN
          IF parse_call'.first[1] = NoStrategy
          THEN /\ domain_strategies'[domain] = domain_strategies[domain]
               /\ selector_cache'[domain] = selector_cache[domain]
               /\ failure_count'[domain] = failure_count[domain] + 1
               /\ parse_call'.data = None
          ELSE /\ domain_strategies'[domain] = parse_call'.first[1]
               /\ parse_call'.first[1] = "html" =>
                      selector_cache'[domain] = parse_call'.first[2]
               /\ failure_count'[domain] = 0
               /\ parse_call'.data # None]_vars

C13_Witness ==
    /\ parse_call.hit = "json"
    /\ ~parse_call.cached_answers
    /\ parse_call.via = "none"
    /\ domain_strategies[domain_of[parse_call.url]] = "json"
    /\ failure_count[domain_of[parse_call.url]] = 2

\* C14: when the lookup of a call returns a cached strategy, the first attempt
\* of the call is that strategy (for HTML, the cached selector on the page
\* fetched, or no selector when the fetch returned no page), and when the
\* world answers that attempt with numbers the call makes no other attempt
\* and returns them.
C14_CachedStrategyFirst ==
    [][parse_call'.hit # NoStrategy =>
          LET domain == domain_of[parse_call'.url]
              cached_selector == IF parse_call'.hit = "html"
                                 THEN selector_cache[domain] ELSE NoSelector
          IN  /\ Len(parse_call'.tried) >= 1
              /\ parse_call'.tried[1][1] = parse_call'.hit
              /\ parse_call'.tried[1][2] \in {cached_selector, NoPage}
              /\ parse_call'.tried[1][2] = NoPage => parse_call'.hit = "html"
              /\ parse_call'.cached_answers =>
                    /\ parse_call'.tried = << <<parse_call'.hit, cached_selector>> >>
                    /\ parse_call'.via = "cached"
                    /\ parse_call'.data # None]_vars

\* the cached JSON strategy answered and was the only attempt, in a world
\* whose page has a selector that matches
C14_Witness ==
    /\ parse_call.hit = "json"
    /\ parse_call.cached_answers
    /\ parse_call.first[1] = "html"
    /\ parse_call.tried = << <<"json", NoSelector>> >>
    /\ parse_call.via = "cached"

\* the order the claim gives: the HTML selectors in list order (no selector
\* when no page was fetched), then the JSON endpoint, then the keyed API
ClaimedOrder(with_page) ==
    (IF with_page
     THEN [i \in 1..Len(selector_patterns) |-> <<"html", selector_patterns[i]>>]
     ELSE << <<"html", NoPage>> >>)
    \o << <<"json", NoSelector>>, <<"api_keys", NoSelector>> >>

IsPrefix(s, t) == Len(s) <= Len(t) /\ s = SubSeq(t, 1, Len(s))

\* C15: on a cache miss the attempts of a call are a beginning of the order
\* HTML selectors (list order), JSON endpoint, keyed API; the call stops at
\* the first strategy the world answers with numbers and returns its result;
\* when none answers, every strategy has been attempted.
C15_CascadeOrder ==
    (parse_call.via # "not_called" /\ parse_call.hit = NoStrategy) =>
        /\ \E with_page \in BOOLEAN :
               IsPrefix(parse_call.tried, ClaimedOrder(with_page))
        /\ IF parse_call.first[1] # NoStrategy
           THEN /\ parse_call.tried[Len(parse_call.tried)] = parse_call.first
                /\ parse_call.won = parse_call.first[1]
                /\ parse_call.selector = parse_call.first[2]
                /\ parse_call.data # None
           ELSE /\ \E with_page \in BOOLEAN :
                       parse_call.tried = ClaimedOrder(with_page)
                /\ parse_call.data = None

\* a miss on a page where the second and the fourth selector match: the call
\* stopped at the second
C15_Witness ==
    /\ parse_call.hit = NoStrategy
    /\ parse_call.first = <<"html", ".numbutton">>
    /\ parse_call.tried = << <<"html", ".latest-added__title a">>, <<"html", ".numbutton">> >>
    /\ parse_call.via = "cascade"

\* C16: after a call that succeeded through the full cascade the domain's
\* cache holds the winning strategy (the first the world answered), for HTML
\* with the selector that matched, and a get_strategy call for any URL of the
\* domain made next returns exactly that strategy.
C16_WinnerCached ==
    parse_call.via = "cascade" =>
        LET domain == domain_of[parse_call.url] IN
        /\ parse_call.won = parse_call.first[1]
        /\ domain_strategies[domain] = parse_call.won
        /\ parse_call.won = "html" =>
               /\ parse_call.selector = parse_call.first[2]
               /\ selector_cache[domain] = parse_call.selector
        /\ \A url \in ParseUrls : get_strategy(url).ret = parse_call.won

\* a cached JSON strategy failed and the cascade won with the last selector
C16_Witness ==
    /\ parse_call.via = "cascade"
    /\ parse_call.hit = "json"
    /\ parse_call.won = "html"
    /\ parse_call.selector = ".card-title"
    /\ domain_strategies[domain_of[parse_call.url]] = "html"
    /\ selector_cache[domain_of[parse_call.url]] = ".card-title"

C18_SingleResultIsList ==
    (/\ parse_call.type = "multiple"
     /\ parse_call.via \in {"cached", "cascade"}
     /\ parse_call.extracted = 1) =>
        /\ parse_call.data.t = "list"
        /\ Len(parse_call.data.l) = 1

\* C19: a fetch_url_content call for a URL all of whose requests ended in a
\* network error or a timeout has, once it returned, made exactly 3 requests,
\* returns the empty string and did not raise; before it returns it has made
\* fewer than 3 requests or is making the third.
C19_ThreeAttempts ==
    (/\ fetch.url # <<>>
     /\ \A i \in 1..Len(fetch.outcomes) : fetch.outcomes[i] \in NetworkFailures) =>
        /\ Len(fetch.outcomes) <= 3
        /\ ~fetch.raised
        /\ fetch.pc = "done" =>
               /\ Len(fetch.outcomes) = 3
               /\ fetch.ret = PyStr(<<>>)
        /\ fetch.pc = "sleep" => Len(fetch.outcomes) < 3
        /\ fetch.pc = "request" => Len(fetch.outcomes) = fetch.attempt

\* three failed requests, two sleeps between them, and "" returned
C19_Witness ==
    /\ fetch.pc = "done"
    /\ fetch.url # <<>>
    /\ fetch.outcomes = <<"ClientError", "TimeoutError", "TimeoutError">>
    /\ fetch.slept = 2
    /\ fetch.ret = PyStr(<<>>)
    /\ ~fetch.raised

\* C20: every countdown task that has neither finished nor been cancelled is
\* the task registered for its source in active_countdown_tasks, so each
\* source has at most one such task: a task replaced by
\* add_countdown_to_latest_notification was cancelled before the new one
\* was registered.
C20_OneActiveCountdown ==
    /\ \A i \in DOMAIN tasks :
           tasks[i].status \in ActiveStatus =>
               active_countdown_tasks[tasks[i].site] = i
    /\ \A site_id \in TaskSites :
           Cardinality({i \in DOMAIN tasks :
               tasks[i].site = site_id /\ tasks[i].status \in ActiveStatus}) <= 1

\* a source whose running countdown was cancelled by the start of its next
C20_Witness ==
    \E i, j \in DOMAIN tasks :
        /\ i < j
        /\ tasks[i].site = tasks[j].site
        /\ tasks[i].status = "cancelled"
        /\ tasks[i].interval # NoInterval
        /\ tasks[j].status \in ActiveStatus
        /\ active_countdown_tasks[tasks[j].site] = j

\* C21: a countdown whose remaining time reached zero leaves the Counting
\* state, unless it was cancelled, the interval changed or an edit failed
\* (each of these ends it too)
C21_StopsAtZero ==
    \A i \in 1..MaxTasks :
        (IF i \in DOMAIN tasks
         THEN tasks[i].status = "running" /\ tasks[i].left = "zero"
         ELSE FALSE)
            ~> (IF i \in DOMAIN tasks
                THEN \/ tasks[i].status # "running"
                     \/ tasks[i].error
                     \/ repeat_interval # tasks[i].interval
                ELSE FALSE)

\* C22: after update_number or stop_repeat_notification ran while a
\* countdown was active, that countdown issues at most one more caption edit
C22_CommandCancels ==
    watch.event \in {"stop", "update"} => watch.since <= 1

C24_FailedEditEndsSilently ==
    [][\A i \in DOMAIN tasks :
          /\ (tasks'[i].error /\ ~tasks[i].error)
                 => /\ tasks'[i].status = "finished"
                    /\ \A j \in DOMAIN tasks : j # i => tasks'[j] = tasks[j]
                    /\ DOMAIN tasks' = DOMAIN tasks
                    /\ monVars' = monVars
                    /\ active_countdown_tasks' = active_countdown_tasks
          /\ tasks[i].error => tasks'[i] = tasks[i]]_vars

\* a countdown ended by a failed edit
C24_Witness ==
    \E i \in DOMAIN tasks : tasks[i].error /\ tasks[i].status = "finished"

\* C25: a notification that fails after process_update confirmed a change
\* leaves last_number, previous_last_number and latest_numbers as
\* process_update left them, and the poll that follows with the same head
\* changes nothing and confirms nothing
C25_FailedSendKeepsState ==
    [][\A s \in Sites :
          /\ (/\ call'.op = "send_notification" /\ call.op = "process_update"
              /\ call'.site = s /\ call'.confirmed /\ ~call'.ret)
                 => /\ websites'[s].last_number = websites[s].last_number
                    /\ websites'[s].previous_last_number = websites[s].previous_last_number
                    /\ websites'[s].latest_numbers = websites[s].latest_numbers
          /\ (/\ call.op = "send_notification" /\ call.site = s
              /\ call.confirmed /\ ~call.ret
              /\ call'.op = "process_update" /\ call'.site = s
              /\ HeadValue(websites[s].type, call'.data) = HeadValue(websites[s].type, call.data))
                 => /\ ~call'.ret
                    /\ websites'[s] = websites[s]
                    /\ file'[s] = file[s]]_vars

\* C26: when the notification of a transition process_update confirmed is
\* about to be sent, save_website_data has run for the source and the file
\* holds the source as process_update left it
C26_SavedBeforeNotify ==
    \A s \in Sites :
        (/\ mon.pc = "notify" /\ SiteOrder[mon.idx] = s
         /\ call.op = "process_update" /\ call.ret)
        => /\ call.saved
           /\ file[s] = save_website_data(websites[s])

\* a confirmed transition whose notification is about to be sent
C26_Witness ==
    /\ mon.pc = "notify" /\ mon.stage = "loop"
    /\ call.op = "process_update" /\ call.ret
    /\ file[SiteOrder[mon.idx]] # NoEntry

\* the source as the next start would build and load it from the file
Reloaded(s) ==
    LET loaded == load_website_data(NewMonitor(config[s]), file[s]) IN
    IF needs_initial_run(loaded) THEN [loaded EXCEPT !.is_initial_run = TRUE] ELSE loaded

\* the source has been polled and its pass is over
CycleOver(s) ==
    /\ mon.stage = "loop" /\ mon.pc = "check"
    /\ call.site = s
    /\ call.op \in {"process_update", "send_notification", "no_data"}

\* C27: at the end of a poll cycle, what a restart would load for a source
\* equals its last_number, previous_last_number and latest_numbers in
\* memory, and the reloaded source polled with the head last polled confirms
\* nothing and changes none of the three
C27_RoundTrip ==
    \A s \in Sites :
        CycleOver(s)
        => /\ Reloaded(s).last_number = websites[s].last_number
           /\ Reloaded(s).previous_last_number = websites[s].previous_last_number
           /\ Reloaded(s).latest_numbers = websites[s].latest_numbers
           /\ (call.op = "process_update" /\ ~call.raised)
                  => LET r == process_update(Reloaded(s), call.data, NoFlag) IN
                     /\ ~r.ret
                     /\ ~needs_initial_run(Reloaded(s))
                     /\ r.w.last_number = Reloaded(s).last_number
                     /\ r.w.previous_last_number = Reloaded(s).previous_last_number
                     /\ r.w.latest_numbers = Reloaded(s).latest_numbers

\* C28: whatever a source's turn ends with (no data, an exception in
\* process_update, a failed notification), the loop goes on: a source that
\* stays enabled from some time on has its check started again and again
C28_EnabledSourceCheckedAgain ==
    \A s \in LoopSites :
        <>[](websites[s].enabled)
            => []<>(mon.pc = "fetching" /\ LoopOrder[mon.idx] = s)

\* the source whose process_update raised is being checked again
C28_Witness ==
    /\ call.op = "process_update" /\ call.raised
    /\ mon.stage = "loop" /\ mon.pc = "fetching"
    /\ LoopOrder[mon.idx] = call.site

\* C29: at most one source is in its turn (fetch, parse, process_update,
\* notification) at any time, and it is the one the loop stands at
C29_OneSourceAtATime ==
    /\ Cardinality(in_flight) <= 1
    /\ \A s \in in_flight :
          /\ s = LoopOrder[mon.idx]
          /\ mon.pc \in {"fetching", "sending"}

\* the second source is in its turn after the first one was processed
C29_Witness ==
    /\ in_flight = {LoopOrder[2]}
    /\ call.site = LoopOrder[1] /\ call.op \in {"process_update", "send_notification"}

\* C30: in no step does the loop start the check of a disabled source, call
\* process_update on it or end a notification of it, and its last_number,
\* previous_last_number and latest_numbers stay as they are; it stays in
\* the registry; a toggle changes the enabled flag of its target and
\* nothing else
C30_DisabledUntouched ==
    [][/\ DOMAIN websites' = DOMAIN websites
       /\ \A s \in LoopSites :
             ~websites[s].enabled
             => /\ websites'[s].last_number = websites[s].last_number
                /\ websites'[s].previous_last_number = websites[s].previous_last_number
                /\ websites'[s].latest_numbers = websites[s].latest_numbers
                /\ s \in in_flight' => s \in in_flight
                /\ (call'.site = s /\ call'.op \in {"process_update", "send_notification"})
                       => call' = call
       /\ \A s \in LoopSites :
             (call'.op = "toggle" /\ call'.site = s /\ mon' = mon)
             => /\ websites' = [websites EXCEPT ![s].enabled = ~@]
                /\ file' = file]_vars

\* C31: a source whose type is "single" has an empty latest_numbers
C31_SingleHasNoList ==
    \A s \in Sites :
        websites[s].type = "single" => websites[s].latest_numbers = PyList(<<>>)

\* a single source that was polled with a list of several texts
C31_Witness ==
    \E s \in Sites :
        /\ websites[s].type = "single"
        /\ call.op = "process_update" /\ call.site = s
        /\ call.data.t = "list" /\ Len(call.data.l) > 1
        /\ websites[s].last_number # None

\* C32: a source without a configured type gets its type from the first parse
\* result that has data: "single" for one value, "multiple" for more than one;
\* once the type is set no later parse result changes it
C32_TypeInferredOnce ==
    [][\A s \in Sites :
          LET polled == /\ call'.op = "process_update" /\ call'.site = s
                        /\ mon.pc = "check" /\ mon.stage \in {"first_pass", "loop"}
                        /\ websites[s].enabled
              values == IF call'.data.t = "list" THEN Len(call'.data.l) ELSE 1
          IN  /\ (polled /\ websites[s].type = "none")
                    => websites'[s].type = IF values > 1 THEN "multiple" ELSE "single"
              /\ (polled /\ websites[s].type # "none")
                    => websites'[s].type = websites[s].type
              /\ (websites'[s].type # websites[s].type)
                    => \/ polled /\ websites[s].type = "none"
                       \/ call'.op = "restart" /\ websites'[s].type = config[s]]_vars

\* a source first detected as multiple is polled with a single value
C32_Witness ==
    \E s \in Sites :
        /\ config[s] = "none" /\ websites[s].type = "multiple"
        /\ call.op = "process_update" /\ call.site = s
        /\ call.data.t = "str"

\* C33: when update_number has run after a poll of the source was announced
\* and left last_number different from the head that poll saw, the next poll
\* that sees the same page confirms a change and hands the source to
\* send_notification again
C33_StaleUpdateRenotifies ==
    [][\A s \in Sites :
          (/\ call.op = "update_number" /\ call.site = s /\ call.confirmed
           /\ websites[s].enabled /\ websites[s].type = "single"
           /\ websites[s].last_number # HeadValue("single", call.data)
           /\ call'.op = "process_update" /\ call'.site = s
           /\ call'.data = call.data)
              => /\ call'.ret
                 /\ mon'.pc = "notify"
                 /\ websites'[s].last_number = HeadValue("single", call.data)
                 /\ websites'[s].previous_last_number = websites[s].last_number]_vars

\* update_number has put an older head back after the page's present head
\* was announced
C33_Witness ==
    \E s \in Sites :
        /\ call.op = "update_number" /\ call.site = s /\ call.confirmed
        /\ mon.stage = "loop" /\ mon.pc = "check" /\ SiteOrder[mon.idx] = s
        /\ websites[s].enabled /\ websites[s].type = "single"
        /\ websites[s].last_number = websites[s].previous_last_number
        /\ websites[s].last_number # HeadValue("single", call.data)

\* the entries of COUNTRY_CODES whose code is a prefix of the last argument
CodeMatches == {i \in 1..Len(COUNTRY_CODES) : StartsWith(country_call.number_str, COUNTRY_CODES[i][1])}

\* C34: detect_country returns the longest code of the table that is a prefix
\* of the numeric string, with the first-listed territory of that code, and
\* (None, None, None) when no code is a prefix
C34_LongestCodeWins ==
    country_call.called
    => IF CodeMatches = {} THEN country_call.result = NoCountry
       ELSE \E i \in CodeMatches :
               /\ \A j \in CodeMatches : Len(COUNTRY_CODES[j][1]) <= Len(COUNTRY_CODES[i][1])
               /\ country_call.result.code = PyStr(COUNTRY_CODES[i][1])
               /\ country_call.result.iso_code = COUNTRY_CODES[i][2][1]
               /\ country_call.result.flag_url = COUNTRY_CODES[i][2][1]

\* a string that starts with 1787 was resolved, with 1 a prefix as well
C34_Witness ==
    /\ country_call.called
    /\ Cardinality(CodeMatches) > 1
    /\ country_call.result.code = PyStr(<<"1", "7", "8", "7">>)

\* C35: bot.send_photo is reached for a source in a poll only if
\* process_update returned True for that poll, in the first pass of
\* monitor_websites as in its loop; a source whose state was restored and
\* whose head is unchanged is not notified
C35_NotifiedOnlyIfConfirmed ==
    [][\A s \in LoopSites :
          (/\ mon.pc = "fetching" /\ LoopOrder[mon.idx] = s
           /\ mon'.pc = "sending")
              => /\ call'.op = "process_update" /\ call'.site = s
                 /\ call'.ret]_vars

C37_StopsAtFirstSuccess ==
    LET k == Len(fetch.outcomes)
        succeeded(j) == fetch.outcomes[j] \in {"text", "empty_text"}
    IN  /\ k <= MAX_RETRIES
        /\ \A j \in 1..(k - 1) : fetch.outcomes[j] \in NetworkFailures
        /\ fetch.slept <= MAX_RETRIES - 1
        /\ (fetch.pc = "done" /\ k > 0 /\ succeeded(k))
              => /\ fetch.slept = k - 1
                 /\ ~fetch.raised
                 /\ fetch.ret = IF fetch.outcomes[k] = "text" THEN PageContent ELSE PyStr(<<>>)
        /\ (fetch.pc = "done" /\ k > 0 /\ fetch.outcomes[k] \in NetworkFailures)
              => /\ k = MAX_RETRIES
                 /\ fetch.slept = MAX_RETRIES - 1
                 /\ fetch.ret = PyStr(<<>>)

\* the third attempt was the first to succeed
C37_Witness ==
    /\ fetch.pc = "done"
    /\ Len(fetch.outcomes) = MAX_RETRIES
    /\ fetch.outcomes[MAX_RETRIES] = "text"
    /\ fetch.slept = MAX_RETRIES - 1

\* C38: within one run of the process, a source whose is_initial_run is
\* false never has it true again: no poll, notification or handler sets it
\* back; only the start of a new process builds the source anew
C38_InitialRunMonotone ==
    [][\A s \in Sites :
          (~websites[s].is_initial_run /\ websites'[s].is_initial_run)
              => call'.op = "restart"]_vars

\* a source past its first confirmed change is polled again, is handed to
\* send_notification again or gets an update callback
C38_Witness ==
    \E s \in Sites :
        /\ ~websites[s].is_initial_run
        /\ call.site = s
        /\ \/ call.op = "process_update" /\ ~call.ret
           \/ call.op = "update_number"

\* C39: what get_selected_numbers_for_buttons returns is a beginning of the
\* list it was given, and applying it again to its result with the same
\* anchor returns that result
C39_SelectorIdempotent ==
    /\ sel_result # NotCalled => IsPrefix(sel_result.l, sel_numbers.l)
    /\ sel_twice # NotCalled => sel_twice = sel_result

\* the selector cut the list at the anchor and was applied to the cut list
C39_Witness ==
    /\ sel_twice # NotCalled
    /\ Len(sel_result.l) > 0
    /\ Len(sel_result.l) < Len(sel_numbers.l)

\* C40: a domain whose cached strategy is "html" has a cached selector, and
\* a step that removes a domain's strategy removes its selector with it
C40_HtmlHasSelector ==
    /\ [](\A d \in Domains :
             domain_strategies[d] = "html" => selector_cache[d] # NoSelector)
    /\ [][\A d \in Domains :
             (domain_strategies[d] # NoStrategy /\ domain_strategies'[d] = NoStrategy)
                 => selector_cache'[d] = NoSelector]_vars

\* get_strategy answers "html" for a domain with failures counted, and the
\* selector is there
C40_Witness ==
    /\ cache_call.op = "get_strategy"
    /\ cache_call.ret = "html"
    /\ cache_call.count > 0
    /\ selector_cache[cache_call.domain] # NoSelector

====
